---- MODULE Spec2Model ----
(***************************************************************************)
(* The health checker of scinfra-bot (package health): the fleet cache     *)
(* (map serverID -> *ServerStatus, one refresh timestamp, TTL 60 s) and    *)
(* the operations CheckAll, CheckAllForce, CheckServer, CheckServerForce   *)
(* and InvalidateCache, over a configuration built by config.Load and      *)
(* Config.MergeS3Metadata.                                                 *)
(*                                                                         *)
(* Bot.Start handles one update at a time, so the calls of the checker do  *)
(* not overlap in Spec.  A refresh pass takes one step per server, each    *)
(* with its cache write, and a last step for the timestamp; the other      *)
(* calls are one step each.  Time is counted in seconds.                   *)
(***************************************************************************)
EXTENDS Integers, Sequences, FiniteSets, TLC

\* ------------------------------------------------------------- bounds
\* The clock stops advancing at MaxTime.
MaxTime == 90
\* At most MaxPasses refresh passes are run in one behaviour.
MaxPasses == 2

\* ---------------------------------------------------------- constants
\* DefaultCacheTTL = 60 * time.Second
DefaultCacheTTL == 60
\* time.Time{}: the zero time.  The clock counts seconds from the construction
\* of the checker; the zero time (year 1) lies far before it, here as far as
\* 32-bit arithmetic allows.
ZeroTime == -2000000000

\* The steps by which the clock advances between two calls.
TickSteps == {30}

\* The server IDs a caller may ask for; "c" is configured nowhere.
RequestIDs == {"a", "b", "c"}

\* ------------------------------------------------------ configuration
\* config.ServerConfig: ExternalCheck is TRUE when the string is not empty.
Srv(id, name, ext) == [ID |-> id, Name |-> name, ExternalCheck |-> ext]
\* config.CloudConfig
Cloud(name, servers) == [Name |-> name, Servers |-> servers]

\* The infrastructure.clouds sections the YAML file may hold.
YamlClouds ==
    { << >>,
      << Cloud("Prod", << Srv("b", "web", FALSE), Srv("a", "gw", FALSE) >>) >>,
      << Cloud("Lab", << >>) >> }

\* The cloud lists the S3 metadata may hold (<< >>: S3 disabled or no clouds).
S3Clouds ==
    { << >>,
      << Cloud("YC", << Srv("a", "gw-s3", TRUE) >>) >> }

\* Config.MergeS3Metadata, the clouds part: S3 clouds are appended to the
\* YAML clouds when the metadata holds any.
MergeS3Metadata(yaml, s3) == IF Len(s3) > 0 THEN yaml \o s3 ELSE yaml

\* Config.IsInfrastructureEnabled, with infrastructure.enabled set: the
\* checker is constructed only then.
IsInfrastructureEnabled(clouds) == Len(clouds) > 0

VARIABLES
    Clouds,      \* c.config.Infrastructure.Clouds
    now,         \* the wall clock, in seconds
    cache,       \* c.cache: serverID -> snapshot
    cacheTime,   \* c.cacheTime
    passes,      \* the number of refresh passes run so far
    last,        \* the most recent call: its arguments, what it saw and returned
    lastAll,     \* << the list the most recent CheckAll returned >>, or << >>
                 \* when a CheckAllForce or InvalidateCache came after it
    dropped,     \* the passes whose snapshots an InvalidateCache removed
    conf,        \* one check's configuration: the upstreams, the switch-gate
                 \* clients and the server under check
    resp,        \* what the metrics backend and the remote agent answer
    snap,        \* the ServerStatus under consideration, or NoSnap
    level,       \* what GetStatusLevel returned for snap, or ""
    picks,       \* the source and upstream key each check of the server chose
    probed,      \* what the latest reachability probe returned, or NoProbe
    callers,     \* per goroutine: the call it is in and its position there
    accesses,    \* the reads and writes of c.cache and c.cacheTime in progress
    fault,       \* TRUE once the runtime has stopped the program
    sshStats,    \* the edge client's sshSuccessCount, sshErrorCount,
                 \* sshLastLatency, sshLastError and sshLastErrorAt
    sshMu,       \* the goroutine holding the client's sshMu, or 0
    runs,        \* per goroutine: its position in exec or GetSSHStats and
                 \* its locals
    completed,   \* the numbers of executions that have returned nil and an
                 \* error
    settled,     \* the values the statistics had whenever sshMu was released
    inflight,    \* the call under way on the checker or on a switch-gate
                 \* client: the external operations it still has to make
    sgCalls,     \* per switch-gate client: how many of its remote calls have
                 \* returned nil and an error
    twin,        \* two refresh passes over one fleet, side by side: the
                 \* answers each one meets, its result list and its cache
    front,       \* the bot's front end: whether it holds a checker, the
                 \* updates it has handled and what it did for each
    hook,        \* the webhook server: its secret and, per request served,
                 \* the request and what the handler did
    merge,       \* one start of the program: the clouds of the YAML file and
                 \* of the S3 metadata, the merged list and a refresh pass
    shown,       \* one rendering: the value given to a formatter and the
                 \* text it returned
    bot,         \* the update loop: the allow-list and, per update received,
                 \* the update and what the loop did with it
    heap,        \* the ServerStatus objects allocated, the cache of pointers
                 \* to them and the goroutines building and reading them
    cool         \* the callback cooldown: lastCallback per chat and the
                 \* goroutines inside handleCallback

vars == << Clouds, now, cache, cacheTime, passes, last, lastAll, dropped >>

\* The state of one server check and of its classification.
checkVars == << conf, resp, snap, level, picks, probed >>

\* The state of the goroutines calling the checker.
callVars == << callers, accesses, fault >>

\* The state of one SSH client and of the goroutines using it.
statVars == << sshStats, sshMu, runs, completed, settled >>

\* What the specifications of the checker leave alone.
\* The state of one call and of the external operations it makes.
jobVars == << inflight, sgCalls >>

\* The state of the specifications of the start-up, the formatters, the
\* update loop, the snapshot objects and the cooldown.
lateVars == << merge, shown, bot, heap, cool >>

extVars == << statVars, jobVars, twin, front, hook, lateVars >>

allVars == << vars, checkVars, callVars, extVars >>

\* ------------------------------------------------------------ helpers
NoCache == [id \in {} |-> 0]

RECURSIVE Flatten(_)
\* The (server, cloud name) pairs in the order of the two nested loops
\* `for _, cloud := range Clouds { for _, server := range cloud.Servers`.
Flatten(clouds) ==
    IF clouds = << >> THEN << >>
    ELSE [i \in 1..Len(Head(clouds).Servers) |->
              [server |-> Head(clouds).Servers[i], cloudName |-> Head(clouds).Name]]
         \o Flatten(Tail(clouds))

AllServers == Flatten(Clouds)

\* Config.GetServer: the index in AllServers of the first server with this ID,
\* 0 when there is none (nil).
GetServer(serverID) ==
    IF \E i \in DOMAIN AllServers : AllServers[i].server.ID = serverID
    THEN CHOOSE i \in DOMAIN AllServers :
            /\ AllServers[i].server.ID = serverID
            /\ \A j \in 1..(i - 1) : AllServers[j].server.ID # serverID
    ELSE 0

\* Config.GetServerCloud: the name of the first cloud holding this ID.
GetServerCloud(serverID) ==
    IF GetServer(serverID) = 0 THEN "" ELSE AllServers[GetServer(serverID)].cloudName

\* What the sources answer for one server check: the up flag the metrics
\* backend or the tunnel gives, and the outcome of the reachability probe.
Answers == [up : BOOLEAN, probe : BOOLEAN]

\* The answers a check of this server can get: the probe runs (and so has an
\* outcome) only for a server with an external-check target.
AnswersFor(server) == { a \in Answers : server.ExternalCheck \/ ~a.probe }

\* time.Since(t)
Since(t) == now - t

\* Checker.checkServer: the snapshot assembled for one server.  pass stands
\* for the identity of the freshly allocated *ServerStatus: the refresh pass
\* that allocated it, 0 for a single-server check.
checkServer(server, cloudName, ans, pass) ==
    [ID             |-> server.ID,
     Name           |-> server.Name,
     CloudName      |-> cloudName,
     IsUp           |-> ans.up,
     ExternalAccess |-> IF server.ExternalCheck THEN ans.probe ELSE ans.up,
     pass           |-> pass]

\* c.cache[server.ID] = status
CacheWrite(c, status) ==
    [id \in DOMAIN c \cup {status.ID} |-> IF id = status.ID THEN status ELSE c[id]]

\* A validity test that still accepts a cache exactly TTL old.
isCacheValidInclusive(c, t) ==
    IF Cardinality(DOMAIN c) = 0 THEN FALSE ELSE Since(t) <= DefaultCacheTTL

\* A validity test that looks at the map and not at the timestamp.
isCacheValidNoTTL(c, t) == Cardinality(DOMAIN c) # 0

\* Checker.isCacheValid on cache c with timestamp t
isCacheValid(c, t) ==
    IF Cardinality(DOMAIN c) = 0 THEN FALSE ELSE Since(t) < DefaultCacheTTL

\* A cached read that ranges over the keys of the map, not the configuration.
getCachedByKey(c) ==
    (IF "a" \in DOMAIN c THEN << c["a"] >> ELSE << >>)
    \o (IF "b" \in DOMAIN c THEN << c["b"] >> ELSE << >>)

RECURSIVE getCachedFrom(_, _)
getCachedFrom(servers, c) ==
    IF servers = << >> THEN << >>
    ELSE (IF Head(servers).server.ID \in DOMAIN c
          THEN << c[Head(servers).server.ID] >> ELSE << >>)
         \o getCachedFrom(Tail(servers), c)

\* Checker.getCachedStatuses: the cached snapshots in configuration order.
getCachedStatuses(c) == getCachedFrom(AllServers, c)

\* The configured servers, clouds in configured order and the servers of a
\* cloud in declaration order.
ConfiguredServers == [i \in DOMAIN AllServers |-> AllServers[i].server]

\* The record of a call: op and id are the call; n and age are the size of the
\* cache and the age of its timestamp when the call started; fromCache tells
\* whether the result was read from the cache; fetched lists the servers whose
\* sources were asked, in order; ret lists the snapshots returned; err tells
\* whether an error was returned; at is the time the call returned; prevAll is
\* lastAll as a CheckAll found it; afterInvalidate tells whether the call
\* before was InvalidateCache; cacheBefore and timeBefore are the cache and
\* its timestamp as a single-server call found them.
Call(op, id, fromCache, fetched, ret, err) ==
    LET single == op \in {"CheckServer", "CheckServerForce"} IN
    [op |-> op, id |-> id, n |-> Cardinality(DOMAIN cache), age |-> Since(cacheTime),
     fromCache |-> fromCache, fetched |-> fetched, ret |-> ret, err |-> err,
     at |-> now, prevAll |-> IF op = "CheckAll" THEN lastAll ELSE << >>,
     afterInvalidate |-> last.op = "InvalidateCache",
     cacheBefore |-> IF single THEN cache ELSE NoCache,
     timeBefore |-> IF single THEN cacheTime ELSE ZeroTime]

\* No server check is under consideration.
NoSnap == [ID |-> ""]
NoProbe == [called |-> FALSE]
CheckIdle ==
    /\ conf = [none |-> TRUE]
    /\ resp = [none |-> TRUE]
    /\ snap = NoSnap
    /\ level = ""
    /\ picks = << >>
    /\ probed = NoProbe

\* No goroutine is inside the checker.
CallIdle ==
    /\ callers = << >>
    /\ accesses = << >>
    /\ fault = FALSE

\* The statistics of a client just constructed: Go's zero values.
NoneCompleted == [success |-> 0, error |-> 0]
NoStats ==
    [SuccessCount |-> 0, ErrorCount |-> 0, LastLatency |-> 0,
     LastError |-> << >>, LastErrorAt |-> ZeroTime]

\* No goroutine uses an SSH client.
StatIdle ==
    /\ sshStats = NoStats
    /\ sshMu = 0
    /\ runs = << >>
    /\ completed = NoneCompleted
    /\ settled = {}

\* No call is under way.
JobIdle ==
    /\ inflight = [pc |-> "none"]
    /\ sgCalls = << >>

\* No pair of passes is under comparison.
TwinIdle == twin = [none |-> TRUE]

\* No front end is under consideration.
FrontIdle == front = [none |-> TRUE]

\* No webhook server is under consideration.
HookIdle == hook = [none |-> TRUE]

\* No start-up, rendering, update loop, snapshot object or cooldown is under
\* consideration.
MergeIdle == merge = [none |-> TRUE]
ShownIdle == shown = [none |-> TRUE]
BotIdle == bot = [none |-> TRUE]
HeapIdle == heap = [none |-> TRUE]
CoolIdle == cool = [none |-> TRUE]
LateIdle == MergeIdle /\ ShownIdle /\ BotIdle /\ HeapIdle /\ CoolIdle

ExtIdle == StatIdle /\ JobIdle /\ TwinIdle /\ FrontIdle /\ HookIdle /\ LateIdle

\* ------------------------------------------------------------ actions
Init ==
    /\ \E yaml \in YamlClouds, s3 \in S3Clouds :
          /\ Clouds = MergeS3Metadata(yaml, s3)
          /\ IsInfrastructureEnabled(Clouds)
    /\ now = 0
    /\ cache = NoCache
    /\ cacheTime = ZeroTime
    /\ passes = 0
    /\ last = [op |-> "NewChecker", id |-> "", n |-> 0, age |-> 0 - ZeroTime,
               fromCache |-> FALSE, fetched |-> << >>, ret |-> << >>, err |-> FALSE,
               at |-> 0, prevAll |-> << >>, afterInvalidate |-> FALSE,
               cacheBefore |-> NoCache, timeBefore |-> ZeroTime]
    /\ lastAll = << >>
    /\ dropped = {}
    /\ CheckIdle
    /\ CallIdle
    /\ ExtIdle

\* Time passes, between two calls or inside one.
Tick ==
    /\ \E d \in TickSteps :
          /\ now + d <= MaxTime
          /\ now' = now + d
    /\ UNCHANGED << extVars, Clouds, cache, cacheTime, passes, last, lastAll, dropped,
                    checkVars, callVars >>

\* What a call of the checker leaves alone when no other part of the
\* program takes a step with it.
CallFrame == UNCHANGED << extVars, Clouds, now, dropped, checkVars, callVars >>

\* No refreshAll is under way: the call before has returned.  The bot makes
\* its calls one after the other (Bot.Start), so a call begins only then.
AtRest == last.op # "refreshAll"

\* refreshAll under way for CheckAll or CheckAllForce (op): entry is the
\* record of the call as it began, i the index of the next server of the
\* loop, pass the identity of the pass, fetched and ret the servers asked
\* and the list built so far.  No call has returned after an
\* InvalidateCache() while the pass runs.
Running(op) ==
    [op |-> "refreshAll", caller |-> op, i |-> 1, pass |-> passes + 1,
     entry |-> Call(op, "", FALSE, << >>, << >>, FALSE),
     fetched |-> << >>, ret |-> << >>, afterInvalidate |-> FALSE]

\* Checker.CheckAll, the cache path: what it does to the checker.
CheckAllCachedCall ==
    /\ AtRest
    /\ isCacheValid(cache, cacheTime)
    /\ last' = Call("CheckAll", "", TRUE, << >>, getCachedStatuses(cache), FALSE)
    /\ lastAll' = << last'.ret >>
    /\ UNCHANGED << cache, cacheTime, passes >>

\* Checker.CheckAll, the cache path.
CheckAllCached == CheckAllCachedCall /\ CallFrame

\* Checker.CheckAll, the refresh path: the cache is not valid and refreshAll
\* begins, over the map as it is.
CheckAllRefreshCall ==
    /\ AtRest
    /\ ~isCacheValid(cache, cacheTime)
    /\ passes < MaxPasses
    /\ last' = Running("CheckAll")
    /\ passes' = passes + 1
    /\ UNCHANGED << cache, cacheTime, lastAll >>

\* Checker.CheckAll, the refresh path.
CheckAllRefresh == CheckAllRefreshCall /\ CallFrame

CheckAll == CheckAllCached \/ CheckAllRefresh

\* Checker.CheckAllForce: refreshAll begins, whatever the cache holds.
CheckAllForceCall ==
    /\ AtRest
    /\ passes < MaxPasses
    /\ last' = Running("CheckAllForce")
    /\ passes' = passes + 1
    /\ UNCHANGED << cache, cacheTime, lastAll >>

\* Checker.CheckAllForce
CheckAllForce == CheckAllForceCall /\ CallFrame

\* refreshAll, one turn of its loop: the next server is checked, its
\* snapshot appended to the list and assigned to c.cache[server.ID], beside
\* the entries the map held before.
refreshAllLoopCall ==
    /\ ~AtRest
    /\ last.i <= Len(AllServers)
    /\ \E ans \in AnswersFor(AllServers[last.i].server) :
          LET status == checkServer(AllServers[last.i].server,
                                    AllServers[last.i].cloudName, ans, last.pass)
          IN  /\ cache' = CacheWrite(cache, status)
              /\ last' = [last EXCEPT !.i = @ + 1,
                                      !.ret = Append(@, status),
                                      !.fetched = Append(@, AllServers[last.i].server)]
    /\ UNCHANGED << cacheTime, passes, lastAll >>

refreshAllLoop == refreshAllLoopCall /\ CallFrame

\* refreshAll after its loop: c.cacheTime = time.Now(), and the list is
\* returned to the caller of CheckAll or CheckAllForce.
refreshAllReturnCall ==
    /\ ~AtRest
    /\ last.i > Len(AllServers)
    /\ cacheTime' = now
    /\ last' = [last.entry EXCEPT !.fetched = last.fetched, !.ret = last.ret,
                                  !.at = now]
    /\ lastAll' = IF last.caller = "CheckAll" THEN << last.ret >> ELSE << >>
    /\ UNCHANGED << cache, passes >>

refreshAllReturn == refreshAllReturnCall /\ CallFrame

\* The answers a single-server check of this ID can get (none is asked for
\* when the ID is not configured).
SingleAnswers(serverID) ==
    IF GetServer(serverID) = 0 THEN { [up |-> FALSE, probe |-> FALSE] }
    ELSE AnswersFor(AllServers[GetServer(serverID)].server)

\* A single-server fetch that reports a server that is down as an error.
checkServerForceFailsWhenDown(op, serverID, ans) ==
    IF GetServer(serverID) = 0 \/ ~ans.up
    THEN Call(op, serverID, FALSE, << >>, << >>, TRUE)
    ELSE LET server == AllServers[GetServer(serverID)].server IN
         Call(op, serverID, FALSE, << server >>,
              << checkServer(server, GetServerCloud(serverID), ans, 0) >>, FALSE)

\* Checker.checkServerForce: the call record of a single-server fetch.
checkServerForce(op, serverID, ans) ==
    IF GetServer(serverID) = 0
    THEN Call(op, serverID, FALSE, << >>, << >>, TRUE)
    ELSE LET server == AllServers[GetServer(serverID)].server IN
         Call(op, serverID, FALSE, << server >>,
              << checkServer(server, GetServerCloud(serverID), ans, 0) >>, FALSE)

\* Checker.CheckServer: what it does to the checker.
CheckServerCall(serverID) ==
    /\ AtRest
    /\ IF isCacheValid(cache, cacheTime) /\ serverID \in DOMAIN cache
       THEN last' = Call("CheckServer", serverID, TRUE, << >>, << cache[serverID] >>, FALSE)
       ELSE \E ans \in SingleAnswers(serverID) :
               last' = checkServerForce("CheckServer", serverID, ans)
    /\ UNCHANGED << cache, cacheTime, passes, lastAll >>

\* Checker.CheckServer
CheckServer(serverID) == CheckServerCall(serverID) /\ CallFrame

\* A CheckServerForce that stores the snapshot it returns.
CheckServerForceStoring(serverID) ==
    /\ AtRest
    /\ \E ans \in SingleAnswers(serverID) :
          /\ last' = checkServerForce("CheckServerForce", serverID, ans)
          /\ cache' = IF last'.err THEN cache ELSE CacheWrite(cache, last'.ret[1])
    /\ UNCHANGED << extVars, Clouds, now, cacheTime, passes, lastAll, dropped,
                    checkVars, callVars >>

\* A CheckServerForce that stamps the cache with the time of its fetch.
CheckServerForceStamping(serverID) ==
    /\ AtRest
    /\ \E ans \in SingleAnswers(serverID) :
          last' = checkServerForce("CheckServerForce", serverID, ans)
    /\ cacheTime' = IF last'.err THEN cacheTime ELSE now
    /\ UNCHANGED << extVars, Clouds, now, cache, passes, lastAll, dropped,
                    checkVars, callVars >>

\* Checker.CheckServerForce: what it does to the checker.
CheckServerForceCall(serverID) ==
    /\ AtRest
    /\ \E ans \in SingleAnswers(serverID) :
          last' = checkServerForce("CheckServerForce", serverID, ans)
    /\ UNCHANGED << cache, cacheTime, passes, lastAll >>

\* Checker.CheckServerForce
CheckServerForce(serverID) == CheckServerForceCall(serverID) /\ CallFrame

\* An InvalidateCache that resets the timestamp and keeps the map.
InvalidateCacheKeepsMap ==
    /\ AtRest
    /\ cacheTime' = ZeroTime
    /\ last' = Call("InvalidateCache", "", FALSE, << >>, << >>, FALSE)
    /\ lastAll' = << >>
    /\ dropped' = dropped \cup { cache[id].pass : id \in DOMAIN cache }
    /\ UNCHANGED << extVars, Clouds, now, cache, passes,
                    checkVars, callVars >>

\* Checker.InvalidateCache
InvalidateCache ==
    /\ AtRest
    /\ cache' = NoCache
    /\ cacheTime' = ZeroTime
    /\ last' = Call("InvalidateCache", "", FALSE, << >>, << >>, FALSE)
    /\ lastAll' = << >>
    /\ dropped' = dropped \cup { cache[id].pass : id \in DOMAIN cache }
    /\ UNCHANGED << extVars, Clouds, now, passes,
                    checkVars, callVars >>

Next ==
    \/ Tick
    \/ CheckAll
    \/ CheckAllForce
    \/ refreshAllLoop
    \/ refreshAllReturn
    \/ \E serverID \in RequestIDs : CheckServer(serverID)
    \/ \E serverID \in RequestIDs : CheckServerForce(serverID)
    \/ InvalidateCache

\* The checker as the bot drives it: one call at a time, each run to its
\* end, a refresh pass server by server, while time goes on.
Spec == Init /\ [][Next]_allVars


\* ------------------------------------------------- notions of the claims
\* The call recorded in `last` started on a fresh cache: not empty and
\* younger than the TTL.
StartedFresh == last.n > 0 /\ last.age < DefaultCacheTTL

\* The IDs of a list of snapshots or of servers, in order.
IDs(list) == [i \in DOMAIN list |-> list[i].ID]

\* No server ID is configured twice.
UniqueIDs == \A i, j \in DOMAIN AllServers :
                AllServers[i].server.ID = AllServers[j].server.ID => i = j

\* The IDs the configuration holds.
ConfiguredIDs == { AllServers[i].server.ID : i \in DOMAIN AllServers }

\* ----------------------------------------------------------------- C1
\* C1: a CheckAll() that starts on a fresh cache, with an earlier CheckAll()
\* and no CheckAllForce or InvalidateCache since, returns the list the earlier
\* call returned and fetches from no source, for every accepted configuration.
C1_IdempotentWithinTTL ==
    (last.op = "CheckAll" /\ StartedFresh /\ last.prevAll # << >>)
        => (last.ret = last.prevAll[1] /\ last.fetched = << >>)

\* C1 for the configurations that hold no server ID twice.
C1_IdempotentUniqueIDs ==
    (last.op = "CheckAll" /\ StartedFresh /\ last.prevAll # << >> /\ UniqueIDs)
        => (last.ret = last.prevAll[1] /\ last.fetched = << >>)

\* ----------------------------------------------------------------- C2
\* C2: CheckAll() answers from the cache only when the cache is not empty and
\* its refresh timestamp is strictly less than the TTL old; when the age is
\* the TTL or more, or the cache holds nothing, it fetches every configured
\* server; and no call returns cached data whose timestamp is TTL or more old.
C2_CachedOnlyWithinTTL ==
    /\ (last.op \in {"CheckAll", "CheckServer"} /\ last.fromCache)
          => (last.n > 0 /\ last.age < DefaultCacheTTL)
    /\ (last.op = "CheckAll" /\ (last.n = 0 \/ last.age >= DefaultCacheTTL))
          => (~last.fromCache /\ last.fetched = ConfiguredServers)
    /\ (last.op = "CheckAll" /\ last.n > 0 /\ last.age < DefaultCacheTTL)
          => (last.fromCache /\ last.fetched = << >>)

\* A CheckAll() that found a filled cache exactly TTL old and refreshed.
C2_Witness ==
    /\ last.op = "CheckAll" /\ last.n > 0 /\ last.age = DefaultCacheTTL
    /\ ~last.fromCache /\ Len(last.fetched) > 0

\* ----------------------------------------------------------------- C3
\* The cache holds exactly the snapshots of this list.
CacheHoldsExactly(ret) ==
    /\ \A i \in DOMAIN ret : ret[i].ID \in DOMAIN cache /\ cache[ret[i].ID] = ret[i]
    /\ \A id \in DOMAIN cache : \E i \in DOMAIN ret : ret[i] = cache[id]

\* C3: CheckAllForce() fetches every configured server whatever the age of
\* the cache; when it has returned, the cache holds exactly the snapshots it
\* returned and the refresh timestamp is the time the call completed.
C3_ForceAlwaysRefreshes ==
    last.op = "CheckAllForce"
        => /\ ~last.fromCache
           /\ last.fetched = ConfiguredServers
           /\ cacheTime = last.at
           /\ CacheHoldsExactly(last.ret)

\* C3 for the configurations that hold no server ID twice.
C3_ForceUniqueIDs ==
    (last.op = "CheckAllForce" /\ UniqueIDs)
        => /\ ~last.fromCache
           /\ last.fetched = ConfiguredServers
           /\ cacheTime = last.at
           /\ CacheHoldsExactly(last.ret)

\* ----------------------------------------------------------------- C4
\* The servers a call has to fetch when it cannot use the cache.
MustFetch(call) ==
    IF call.op \in {"CheckAll", "CheckAllForce"} THEN ConfiguredServers
    ELSE IF GetServer(call.id) = 0 THEN << >>
    ELSE << AllServers[GetServer(call.id)].server >>

\* C4: right after InvalidateCache() the map is empty and the timestamp is
\* the zero time; the next check call of any kind does not use the cache and
\* fetches what it is asked for; and no later call returns a snapshot that an
\* InvalidateCache() removed from the cache.
C4_InvalidateForcesFetch ==
    /\ last.op = "InvalidateCache" => (DOMAIN cache = {} /\ cacheTime = ZeroTime)
    /\ (last.afterInvalidate /\ last.op # "InvalidateCache")
          => (~last.fromCache /\ last.n = 0 /\ last.fetched = MustFetch(last))
    /\ \A i \in DOMAIN last.ret : last.ret[i].pass \notin dropped

\* A CheckAll() right after the invalidation of a fresh, filled cache.
C4_Witness ==
    /\ last.op = "CheckAll" /\ last.afterInvalidate /\ dropped # {}
    /\ Len(last.fetched) > 0 /\ now < DefaultCacheTTL

\* ----------------------------------------------------------------- C5
\* C5: the cache is empty or all its entries were written by one and the
\* same refresh pass.
C5_OnePassInCache ==
    \A i, j \in DOMAIN cache : cache[i].pass = cache[j].pass /\ cache[i].pass >= 1

\* A cache of two entries that a second refresh pass has rewritten.
C5_Witness ==
    /\ Cardinality(DOMAIN cache) = 2
    /\ \A i \in DOMAIN cache : cache[i].pass = 2

\* The part of C5 that holds: when no refresh pass is under way, the cache
\* is empty or all its entries were written by one and the same pass.
C5_OnePassBetweenCalls ==
    AtRest => \A i, j \in DOMAIN cache : cache[i].pass = cache[j].pass /\ cache[i].pass >= 1

\* A second pass has stored the snapshot of the first server beside the
\* first pass's entry of the second server, and the timestamp of the first
\* pass is still young: the cache is valid.
C5_MixedWhileValid ==
    /\ ~AtRest
    /\ isCacheValid(cache, cacheTime)
    /\ \E i, j \in DOMAIN cache : cache[i].pass = 1 /\ cache[j].pass = 2

\* ----------------------------------------------------------------- C6
\* The call recorded in `last` is a single-server call that fetched.
SingleFetched ==
    last.op \in {"CheckServer", "CheckServerForce"} /\ ~last.err /\ ~last.fromCache

\* C6 as claimed: after a single-server check that fetched (CheckServerForce,
\* or CheckServer on a stale or empty cache) the cache entry of the ID is the
\* snapshot the call returned.
C6_SingleCheckWritesCache ==
    SingleFetched => (last.id \in DOMAIN cache /\ cache[last.id] = last.ret[1])

\* C6 as amended: the snapshot of a per-server check is written to the cache
\* only inside a refresh pass, where it replaces the entry of its ID (the last
\* server of an ID wins); a single-server call returns its snapshot unstored
\* and leaves the cache map as it found it.
C6_OnlyPassesWriteCache ==
    /\ last.op \in {"CheckServer", "CheckServerForce"} => cache = last.cacheBefore
    /\ (last.op \in {"CheckAll", "CheckAllForce"} /\ ~last.fromCache)
          => /\ DOMAIN cache = { last.ret[i].ID : i \in DOMAIN last.ret }
             /\ \A i \in DOMAIN last.ret :
                   (\A j \in DOMAIN last.ret : j > i => last.ret[j].ID # last.ret[i].ID)
                       => cache[last.ret[i].ID] = last.ret[i]

\* A CheckServerForce(id) whose snapshot differs from the cached one of id.
C6_Witness ==
    /\ last.op = "CheckServerForce" /\ ~last.err
    /\ last.id \in DOMAIN cache
    /\ cache[last.id].IsUp # last.ret[1].IsUp

\* ----------------------------------------------------------------- C7
\* C7: CheckServerForce(id) leaves the refresh timestamp and the cache entry
\* of every other server as they were.
C7_ForceOneKeepsTheRest ==
    last.op = "CheckServerForce"
        => /\ cacheTime = last.timeBefore
           /\ DOMAIN cache \ {last.id} = DOMAIN last.cacheBefore \ {last.id}
           /\ \A id \in DOMAIN cache \ {last.id} : cache[id] = last.cacheBefore[id]

\* A CheckServerForce of a configured server on an aged cache of two entries.
C7_Witness ==
    /\ last.op = "CheckServerForce" /\ ~last.err
    /\ Cardinality(DOMAIN cache) = 2 /\ last.age > 0 /\ last.age < DefaultCacheTTL

\* ----------------------------------------------------------------- C8
\* C8: CheckServer(id) of a configured id returns the cached entry of id and
\* fetches nothing when the cache is fresh; on a stale or empty cache it
\* fetches server id and no other, and runs no refresh pass.
C8_CheckServerCachedOrSingle ==
    (last.op = "CheckServer" /\ last.id \in ConfiguredIDs)
        => /\ StartedFresh
                => /\ last.fromCache /\ last.fetched = << >>
                   /\ last.ret = << last.cacheBefore[last.id] >>
           /\ ~StartedFresh
                => /\ ~last.fromCache
                   /\ last.fetched = << AllServers[GetServer(last.id)].server >>
                   /\ Len(last.ret) = 1 /\ last.ret[1].ID = last.id /\ last.ret[1].pass = 0
           /\ cacheTime = last.timeBefore

\* A CheckServer of a configured server on a stale cache of two entries.
C8_Witness ==
    /\ last.op = "CheckServer" /\ last.n = 2 /\ last.age >= DefaultCacheTTL
    /\ Len(last.fetched) = 1

\* ----------------------------------------------------------------- C9
\* C9: CheckServer(id) and CheckServerForce(id) return an error, and no
\* snapshot, exactly when id is not configured, and then leave the cache map
\* and timestamp unchanged; CheckAll and CheckAllForce never return an error,
\* whatever the sources answer.
C9_ErrorIffUnknownID ==
    /\ last.op \in {"CheckServer", "CheckServerForce"}
          => /\ last.err <=> last.id \notin ConfiguredIDs
             /\ last.err => /\ last.ret = << >>
                            /\ cache = last.cacheBefore
                            /\ cacheTime = last.timeBefore
             /\ ~last.err => Len(last.ret) = 1
    /\ last.op \in {"CheckAll", "CheckAllForce"} => ~last.err

\* A CheckServer of an unconfigured id on a fresh cache.
C9_Witness ==
    /\ last.op = "CheckServer" /\ last.err /\ StartedFresh

\* ---------------------------------------------------------------- C10
\* C10: the list CheckAll and CheckAllForce return names the servers in
\* configuration order, from a refresh pass and from the cache alike, and a
\* pass fetches the servers in that order.
C10_ConfigurationOrder ==
    last.op \in {"CheckAll", "CheckAllForce"}
        => /\ IDs(last.ret) = IDs(ConfiguredServers)
           /\ ~last.fromCache
                 => /\ last.fetched = ConfiguredServers
                    /\ \A i \in DOMAIN last.ret :
                          /\ last.ret[i].Name = AllServers[i].server.Name
                          /\ last.ret[i].CloudName = AllServers[i].cloudName

\* A CheckAll served from the cache in a configuration whose order is not
\* the order of the IDs.
C10_Witness ==
    /\ last.op = "CheckAll" /\ last.fromCache
    /\ Len(last.ret) >= 2 /\ last.ret[1].ID = "b" /\ last.ret[2].ID = "a"

\* ===================================================== the status level
\* StatusLevel
StatusUp == "up"
StatusDegraded == "degraded"
StatusDown == "down"
StatusLevels == { StatusUp, StatusDegraded, StatusDown }

\* The longest service list drawn.
MaxServices == 2

\* ServiceStatus, with the fields the level and the checks read.
Service(name, isUp, error) == [Name |-> name, IsUp |-> isUp, Error |-> error]

\* ServerStatus, with the fields the level and the checks read.  Percentages
\* are whole per cent; only their order against the thresholds matters.
Status(isUp, cpu, memory, disk, services) ==
    [ID |-> "s", IsUp |-> isUp, CPU |-> cpu, Memory |-> memory, Disk |-> disk,
     MemoryUsedGB |-> 0, MemoryTotalGB |-> 0, DiskUsedGB |-> 0, DiskTotalGB |-> 0,
     Uptime |-> 0, ExternalAccess |-> isUp, ExternalLatency |-> 0,
     ExternalError |-> << >>, Services |-> services]

\* Some service of the list is down.
SomeServiceDown(services) == \E i \in DOMAIN services : ~services[i].IsUp

\* A GetStatusLevel that looks at the resources before the up flag.
GetStatusLevelResourcesFirst(s) ==
    IF s.CPU > 80 \/ s.Memory > 85 \/ s.Disk > 85 THEN StatusDegraded
    ELSE IF ~s.IsUp THEN StatusDown
    ELSE IF SomeServiceDown(s.Services) THEN StatusDegraded
    ELSE StatusUp

\* A GetStatusLevel whose thresholds are inclusive.
GetStatusLevelInclusive(s) ==
    IF ~s.IsUp THEN StatusDown
    ELSE IF s.CPU >= 80 \/ s.Memory >= 85 \/ s.Disk >= 85 THEN StatusDegraded
    ELSE IF SomeServiceDown(s.Services) THEN StatusDegraded
    ELSE StatusUp

\* A GetStatusLevel that looks at the first service only.
GetStatusLevelFirstService(s) ==
    IF ~s.IsUp THEN StatusDown
    ELSE IF s.CPU > 80 \/ s.Memory > 85 \/ s.Disk > 85 THEN StatusDegraded
    ELSE IF Len(s.Services) > 0 /\ ~s.Services[1].IsUp THEN StatusDegraded
    ELSE StatusUp

\* A GetStatusLevel that forgets the disk.
GetStatusLevelNoDisk(s) ==
    IF ~s.IsUp THEN StatusDown
    ELSE IF s.CPU > 80 \/ s.Memory > 85 THEN StatusDegraded
    ELSE IF SomeServiceDown(s.Services) THEN StatusDegraded
    ELSE StatusUp

\* ServerStatus.GetStatusLevel
GetStatusLevel(s) ==
    IF ~s.IsUp THEN StatusDown
    ELSE IF s.CPU > 80 \/ s.Memory > 85 \/ s.Disk > 85 THEN StatusDegraded
    ELSE IF SomeServiceDown(s.Services) THEN StatusDegraded
    ELSE StatusUp

\* The statuses GetStatusLevel is applied to: every combination of the up
\* flag, of percentages at, below and above each threshold, and of service
\* lists of up to MaxServices entries.
CPUValues == { 0, 80, 81, 100 }
MemoryValues == { 0, 85, 86 }
DiskValues == { 0, 85, 86 }
ServiceLists ==
    UNION { [1..n -> { Service("svc", b, IF b THEN "" ELSE "down") : b \in BOOLEAN }] :
            n \in 0..MaxServices }
LevelInputs ==
    { Status(u, c, m, d, l) :
        u \in BOOLEAN, c \in CPUValues, m \in MemoryValues, d \in DiskValues,
        l \in ServiceLists }

\* The checker and its callers play no part in a classification or a check.
CheckerIdle ==
    /\ Clouds = << >>
    /\ now = 0
    /\ cache = NoCache
    /\ cacheTime = ZeroTime
    /\ passes = 0
    /\ last = [op |-> "none"]
    /\ lastAll = << >>
    /\ dropped = {}

InitLevel ==
    /\ snap \in LevelInputs
    /\ level = ""
    /\ conf = [none |-> TRUE]
    /\ resp = [none |-> TRUE]
    /\ picks = << >>
    /\ probed = NoProbe
    /\ CheckerIdle
    /\ CallIdle
    /\ ExtIdle

\* s.GetStatusLevel() for the status under consideration.
Classify ==
    /\ snap # NoSnap
    /\ level = ""
    /\ level' = GetStatusLevel(snap)
    /\ UNCHANGED << extVars, conf, resp, snap, picks, probed, vars, callVars >>

NextLevel == Classify

\* GetStatusLevel applied to every status of LevelInputs.
SpecLevel == InitLevel /\ [][NextLevel]_allVars

\* ---------------------------------------------------------------- C13
\* C13: a status whose IsUp is false is classified Down, whatever its CPU,
\* memory and disk percentages and whatever its service list.
C13_DownWhenNotUp ==
    (level # "" /\ ~snap.IsUp) => level = StatusDown

\* A status that is not up, with CPU above its threshold and a service down,
\* classified Down.
C13_Witness ==
    /\ level = StatusDown /\ ~snap.IsUp
    /\ snap.CPU > 80 /\ SomeServiceDown(snap.Services)

\* ---------------------------------------------------------------- C14
\* C14: a status that is up, with CPU <= 80, memory <= 85, disk <= 85 and no
\* service down (an empty service list included), is classified Up; the
\* boundary values 80 / 85 / 85 are Up.
C14_UpWithinThresholds ==
    (/\ level # "" /\ snap.IsUp
     /\ snap.CPU <= 80 /\ snap.Memory <= 85 /\ snap.Disk <= 85
     /\ ~SomeServiceDown(snap.Services))
        => level = StatusUp

\* An up status exactly at 80 / 85 / 85 with no service, classified Up.
C14_Witness ==
    /\ level = StatusUp /\ snap.IsUp
    /\ snap.CPU = 80 /\ snap.Memory = 85 /\ snap.Disk = 85
    /\ snap.Services = << >>

\* ---------------------------------------------------------------- C15
\* C15: a status that is up with at least one service down is classified
\* Degraded, whatever its percentages.
C15_DegradedWhenServiceDown ==
    (level # "" /\ snap.IsUp /\ SomeServiceDown(snap.Services))
        => level = StatusDegraded

\* An up status with every percentage at zero, its first service up and its
\* second one down, classified Degraded.
C15_Witness ==
    /\ level = StatusDegraded /\ snap.IsUp
    /\ snap.CPU = 0 /\ snap.Memory = 0 /\ snap.Disk = 0
    /\ Len(snap.Services) = 2
    /\ snap.Services[1].IsUp /\ ~snap.Services[2].IsUp

\* ---------------------------------------------------------------- C16
\* C16: GetStatusLevel returns one of the three levels for every status:
\* Down exactly when IsUp is false, Degraded exactly when IsUp is true and
\* (CPU > 80 or memory > 85 or disk > 85 or some service is down), and Up
\* otherwise.
C16_ThreeLevelsByPriority ==
    level # "" =>
        /\ level \in StatusLevels
        /\ (level = StatusDown) <=> ~snap.IsUp
        /\ (level = StatusDegraded) <=>
              (snap.IsUp /\ (\/ snap.CPU > 80 \/ snap.Memory > 85 \/ snap.Disk > 85
                             \/ SomeServiceDown(snap.Services)))

\* An up status with only its disk above the threshold and every service up,
\* classified Degraded.
C16_Witness ==
    /\ level = StatusDegraded /\ snap.IsUp
    /\ snap.CPU <= 80 /\ snap.Memory <= 85 /\ snap.Disk > 85
    /\ Len(snap.Services) > 0 /\ ~SomeServiceDown(snap.Services)

\* ================================================== one server check
\* config.Upstream, with the fields the checker reads.
Upstream(ip, sg) == [IP |-> ip, SwitchGate |-> sg]

\* The address of the server under check, and another one.
ServerIP == "10.0.2.5"
OtherIP == "10.0.9.9"

\* Config.Upstreams: no upstream, one at another address, one at the
\* server's address without and with the switch-gate flag, and two sharing
\* the server's address.
UpstreamMaps ==
    { [k \in {} |-> 0],
      "far" :> Upstream(OtherIP, TRUE),
      "direct" :> Upstream(ServerIP, FALSE),
      "vps" :> Upstream(ServerIP, TRUE),
      ("vps" :> Upstream(ServerIP, TRUE)) @@ ("backup" :> Upstream(ServerIP, FALSE)),
      ("vps" :> Upstream(ServerIP, TRUE)) @@ ("vps2" :> Upstream(ServerIP, TRUE)) }

\* Config.GetUpstreamByIP returns the first key of c.Upstreams, in the order
\* the loop visits the map, whose upstream has this address, or "".  A Go
\* map is visited in an order the runtime picks anew for each loop: these are
\* the keys one call can return.
GetUpstreamByIP(upstreams, ip) ==
    LET hits == { k \in DOMAIN upstreams : upstreams[k].IP = ip } IN
    IF hits = {} THEN { "" } ELSE hits

\* Config.IsSwitchGateServer
IsSwitchGateServer(upstreams, ip) ==
    \E k \in DOMAIN upstreams : upstreams[k].IP = ip /\ upstreams[k].SwitchGate

\* telegram.New builds one switch-gate client per flagged upstream and skips
\* the upstreams whose client cannot be built (all share one key path): the
\* key sets c.switchGateClients can have.
SwitchGateClients(upstreams) ==
    { { k \in DOMAIN upstreams : upstreams[k].SwitchGate }, {} }

\* config.ServiceConfig
ServiceConfig(name, job) == [Name |-> name, Job |-> job]

\* ServerConfig.Services: none, one with a metrics job, the remote agent's.
ServiceConfigs ==
    { << >>,
      << ServiceConfig("nginx", "nginx") >>,
      << ServiceConfig("switch-gate", ""), ServiceConfig("node_exporter", "") >> }

\* A check target, as its scheme prefix and the rest; the empty string is
\* << >>.
Target(scheme, rest) == << scheme, rest >>
NoTarget == << >>

\* config.ServerConfig
ServerConfig(ext, services) ==
    [ID |-> "s", Name |-> "srv", IP |-> ServerIP, ExternalCheck |-> ext,
     Services |-> services]

\* The configurations a check runs under.
CheckConfigs ==
    UNION { { [Upstreams |-> u, Clients |-> c, Server |-> ServerConfig(e, l)] :
                c \in SwitchGateClients(u),
                e \in { NoTarget, Target("https://", "srv.example"),
                         Target("tcp://", "srv.example:22") },
                l \in ServiceConfigs } :
            u \in UpstreamMaps }

\* ------------------------------------------------ the metrics backend
\* What one call of the metrics client returns: a value, or an error.
Ok(v) == [ok |-> TRUE, value |-> v, err |-> ""]
Failed(text) == [ok |-> FALSE, value |-> 0, err |-> text]
NoAnswer == Failed("no results for query")

\* Byte counts are carried in KiB (1024^3 bytes is past TLC's integers).
BytesToGB(kib) == kib \div (1024 * 1024)

\* The answers of the metrics backend: the up query in its two match forms,
\* the six metric queries and, per metrics job, the up query of that job.
UpAnswers == { NoAnswer, Ok(0), Ok(1) }
Jobs == { "nginx" }
NoJobAnswers(jobs) == [j \in jobs |-> NoAnswer]
PromAnswers ==
    [ upExact : UpAnswers, upRegex : UpAnswers,
      cpu : { NoAnswer, Ok(50), Ok(90) },
      memory : { NoAnswer, Ok(40) },
      memoryBytes : { NoAnswer, Ok([used |-> 2097152, total |-> 4194304]) },
      disk : { NoAnswer, Ok(30) },
      diskBytes : { NoAnswer, Ok([used |-> 3145728, total |-> 10485760]) },
      uptime : { NoAnswer, Ok(3600) },
      serviceUp : [Jobs -> UpAnswers] ]

\* The metrics backend is not asked.
PromSilent ==
    [ upExact |-> NoAnswer, upRegex |-> NoAnswer, cpu |-> NoAnswer,
      memory |-> NoAnswer, memoryBytes |-> NoAnswer, disk |-> NoAnswer,
      diskBytes |-> NoAnswer, uptime |-> NoAnswer, serviceUp |-> NoJobAnswers(Jobs) ]

\* prometheus.Client.IsUp: the exact match first, the regex match when that
\* fails; up when the value read is 1.
IsUp(exact, regex) ==
    IF exact.ok THEN Ok(exact.value = 1)
    ELSE IF regex.ok THEN Ok(regex.value = 1)
    ELSE [ok |-> FALSE, value |-> FALSE, err |-> regex.err]

\* prometheus.Client.IsServiceUp
IsServiceUp(answer) ==
    IF answer.ok THEN Ok(answer.value = 1)
    ELSE [ok |-> FALSE, value |-> FALSE, err |-> answer.err]

\* Service entries that all mirror the server's up flag, job or not.
promServicesMirror(services, isUp, p) ==
    [ i \in DOMAIN services |-> Service(services[i].Name, isUp, "") ]

\* The service entries of the metrics path.
promServices(services, isUp, p) ==
    [ i \in DOMAIN services |->
        IF services[i].Job # ""
        THEN LET r == IsServiceUp(p.serviceUp[services[i].Job]) IN
             Service(services[i].Name, r.value, r.err)
        ELSE Service(services[i].Name, isUp, "") ]

\* A checkPrometheusServer that reports the server down when a metric query
\* fails.
checkPrometheusServerStrict(status, server, p) ==
    LET up == IsUp(p.upExact, p.upRegex)
        asked == up.ok /\ up.value
        isUp == asked /\ p.cpu.ok /\ p.memory.ok /\ p.memoryBytes.ok
                      /\ p.disk.ok /\ p.diskBytes.ok /\ p.uptime.ok
        Set(q, old) == IF asked /\ q.ok THEN q.value ELSE old
    IN  [ status EXCEPT
            !.IsUp = isUp,
            !.CPU = Set(p.cpu, @),
            !.Memory = Set(p.memory, @),
            !.Disk = Set(p.disk, @),
            !.Uptime = Set(p.uptime, @),
            !.Services = @ \o promServices(server.Services, isUp, p) ]

\* Checker.checkPrometheusServer
checkPrometheusServer(status, server, p) ==
    LET up == IsUp(p.upExact, p.upRegex)
        isUp == IF up.ok THEN up.value ELSE FALSE
        Set(q, old) == IF isUp /\ q.ok THEN q.value ELSE old
        SetGB(q, field, old) == IF isUp /\ q.ok THEN BytesToGB(q.value[field]) ELSE old
    IN  [ status EXCEPT
            !.IsUp = isUp,
            !.CPU = Set(p.cpu, @),
            !.Memory = Set(p.memory, @),
            !.MemoryUsedGB = SetGB(p.memoryBytes, "used", @),
            !.MemoryTotalGB = SetGB(p.memoryBytes, "total", @),
            !.Disk = Set(p.disk, @),
            !.DiskUsedGB = SetGB(p.diskBytes, "used", @),
            !.DiskTotalGB = SetGB(p.diskBytes, "total", @),
            !.Uptime = Set(p.uptime, @),
            !.Services = @ \o promServices(server.Services, isUp, p) ]

\* --------------------------------------------------- the remote agent
\* time.ParseDuration on the uptime strings the agent is taken to send.
ParseDuration(text) ==
    IF text = "72h3m0s" THEN Ok(259380)
    ELSE Failed("time: invalid duration")

\* switchgate.Client.GetStatus: the agent's status, or the wrapped error of
\* the dial, the session, the command or the JSON parse.
StatusAnswers ==
    { Ok([Uptime |-> ""]), Ok([Uptime |-> "72h3m0s"]), Ok([Uptime |-> "soon"]),
      Failed("dial jump host: i/o timeout"),
      Failed("parse status: unexpected end of JSON input") }

\* switchgate.Client.GetNodeMetrics: memory and disk used, in per cent and
\* in KiB, and the 1-minute load in hundredths, or an error.
NodeMetrics(memory, disk, load) ==
    [MemoryUsedPercent |-> memory, MemoryUsedBytes |-> 1048576,
     MemoryTotalBytes |-> 2097152, DiskUsedPercent |-> disk,
     DiskUsedBytes |-> 5242880, DiskTotalBytes |-> 20971520, Load1 |-> load]
NodeAnswers ==
    { Failed("run command: exit status 7"),
      Ok(NodeMetrics(40, 30, 25)), Ok(NodeMetrics(90, 30, 250)) }

AgentAnswers == [ status : StatusAnswers, node : NodeAnswers ]

\* The remote agent is not asked.
AgentSilent == [ status |-> Failed("not asked"), node |-> Failed("not asked") ]

\* The service entries of the tunnel path, by service name.
agentServices(services, memory) ==
    [ i \in DOMAIN services |->
        Service(services[i].Name,
                IF services[i].Name = "node_exporter" THEN memory > 0 ELSE TRUE,
                "") ]

\* The snapshot after a successful status fetch: uptime, node metrics and
\* the declared services.
agentUp(status, server, isUp, g) ==
    LET uptime == IF g.status.value.Uptime # ""
                  THEN ParseDuration(g.status.value.Uptime)
                  ELSE Failed("")
        n == g.node.value
        load == IF g.node.ok THEN (n.Load1 * 100) \div 100 ELSE 0
        memory == IF g.node.ok THEN n.MemoryUsedPercent ELSE status.Memory
    IN  [ status EXCEPT
            !.IsUp = isUp,
            !.Uptime = IF uptime.ok THEN uptime.value ELSE @,
            !.Memory = memory,
            !.MemoryUsedGB = IF g.node.ok THEN BytesToGB(n.MemoryUsedBytes) ELSE @,
            !.MemoryTotalGB = IF g.node.ok THEN BytesToGB(n.MemoryTotalBytes) ELSE @,
            !.Disk = IF g.node.ok THEN n.DiskUsedPercent ELSE @,
            !.DiskUsedGB = IF g.node.ok THEN BytesToGB(n.DiskUsedBytes) ELSE @,
            !.DiskTotalGB = IF g.node.ok THEN BytesToGB(n.DiskTotalBytes) ELSE @,
            !.CPU = IF g.node.ok THEN (IF load > 100 THEN 100 ELSE load) ELSE @,
            !.Services = @ \o agentServices(server.Services, memory) ]

\* A checkSwitchGateServer that goes on to the declared services after a
\* failed status fetch.
checkSwitchGateServerKeepsServices(status, server, upstreamKey, clients, g) ==
    IF upstreamKey \notin clients THEN [status EXCEPT !.IsUp = FALSE]
    ELSE IF ~g.status.ok
    THEN [status EXCEPT
            !.IsUp = FALSE,
            !.Services = Append(@, Service("switch-gate", FALSE, g.status.err))
                            \o agentServices(server.Services, 0)]
    ELSE agentUp(status, server, TRUE, g)

\* A checkSwitchGateServer for which the server is up only when the node
\* metrics came too.
checkSwitchGateServerNeedsMetrics(status, server, upstreamKey, clients, g) ==
    IF upstreamKey \notin clients THEN [status EXCEPT !.IsUp = FALSE]
    ELSE IF ~g.status.ok
    THEN [status EXCEPT
            !.IsUp = FALSE,
            !.Services = Append(@, Service("switch-gate", FALSE, g.status.err))]
    ELSE agentUp(status, server, g.node.ok, g)

\* Checker.checkSwitchGateServer
checkSwitchGateServer(status, server, upstreamKey, clients, g) ==
    IF upstreamKey \notin clients THEN [status EXCEPT !.IsUp = FALSE]
    ELSE IF ~g.status.ok
    THEN [status EXCEPT
            !.IsUp = FALSE,
            !.Services = Append(@, Service("switch-gate", FALSE, g.status.err))]
    ELSE agentUp(status, server, TRUE, g)

\* ----------------------------------------------- the reachability probe
\* The timeout of the HTTP client, of the request context and of the TCP
\* dial, in seconds.
ProbeTimeout == 10

\* strings.HasPrefix and strings.TrimPrefix on a target.
HasPrefix(target, prefix) == Len(target) > 0 /\ target[1] = prefix
TrimPrefix(target, prefix) == IF HasPrefix(target, prefix) THEN Tail(target) ELSE target

\* An error value: nil, or an error with its text.
Nil == [nil |-> TRUE, text |-> << >>]
Errorf(text) == [nil |-> FALSE, text |-> text]

\* What the network gives a probe after `latency` seconds: a connection or a
\* response with a status code, or an error.
Latencies == { 0, 2, 9 }
StatusCodes == { 199, 200, 301, 399, 400, 404, 500 }
Connected(latency) == [ok |-> TRUE, code |-> 0, latency |-> latency, err |-> << >>]
Response(code, latency) == [ok |-> TRUE, code |-> code, latency |-> latency, err |-> << >>]
Refused == [ok |-> FALSE, code |-> 0, latency |-> 0, err |-> << "connection refused" >>]
TimedOut == [ok |-> FALSE, code |-> 0, latency |-> ProbeTimeout, err |-> << "i/o timeout" >>]
DialAnswers == { Connected(l) : l \in Latencies } \cup { Refused, TimedOut }
HTTPAnswers ==
    { Response(c, l) : c \in StatusCodes, l \in Latencies } \cup { Refused, TimedOut }

\* http.NewRequestWithContext accepts the URL.
ValidURL(url) == \A i \in DOMAIN url : url[i] # "bad host"

\* What a probe returns: (accessible, latency, err).
Probed(accessible, latency, err) ==
    [called |-> TRUE, accessible |-> accessible, latency |-> latency, err |-> err]

\* A checkHTTP that takes 400 for a success.
checkHTTPUpTo400(url, net) ==
    IF ~ValidURL(url) THEN Probed(FALSE, 0, Errorf(<< "invalid URL: " >>))
    ELSE IF ~net.ok
    THEN Probed(FALSE, net.latency, Errorf(<< "connection failed: " >> \o net.err))
    ELSE IF net.code >= 200 /\ net.code <= 400 THEN Probed(TRUE, net.latency, Nil)
    ELSE Probed(FALSE, net.latency, Errorf(<< "HTTP ", net.code >>))

\* Checker.checkHTTP
checkHTTP(url, net) ==
    IF ~ValidURL(url) THEN Probed(FALSE, 0, Errorf(<< "invalid URL: " >>))
    ELSE IF ~net.ok
    THEN Probed(FALSE, net.latency, Errorf(<< "connection failed: " >> \o net.err))
    ELSE IF net.code >= 200 /\ net.code < 400 THEN Probed(TRUE, net.latency, Nil)
    ELSE Probed(FALSE, net.latency, Errorf(<< "HTTP ", net.code >>))

\* Checker.checkTCP
checkTCP(addr, net) ==
    IF ~net.ok
    THEN Probed(FALSE, net.latency, Errorf(<< "connection failed: " >> \o net.err))
    ELSE Probed(TRUE, net.latency, Nil)

\* Checker.checkExternal, with what the TCP dial and the HTTP request would
\* meet.
checkExternal(checkURL, net) ==
    IF HasPrefix(checkURL, "tcp://")
    THEN checkTCP(TrimPrefix(checkURL, "tcp://"), net.dial)
    ELSE checkHTTP(checkURL, net.http)

\* The network's answers to a probe of this target: a dial for a tcp://
\* target, a request for any other.
ProbeAnswers(target) ==
    IF HasPrefix(target, "tcp://")
    THEN [ dial : DialAnswers, http : { Refused } ]
    ELSE [ dial : { Refused }, http : HTTPAnswers ]

\* ------------------------------------------------------ Checker.checkServer
\* The most checks made of the server under one configuration.
MaxChecks == 2

\* The source a check uses once GetUpstreamByIP has returned upstreamKey.
UsesSwitchGate(c, upstreamKey) ==
    upstreamKey # "" /\ IsSwitchGateServer(c.Upstreams, c.Server.IP)

\* The probe of checkServer: c.checkExternal when the server has a target,
\* no call otherwise.
externalCheck(server, net) ==
    IF server.ExternalCheck # NoTarget THEN checkExternal(server.ExternalCheck, net)
    ELSE NoProbe

\* The source fetch of checkServer.
sourceCheck(c, r, upstreamKey) ==
    IF UsesSwitchGate(c, upstreamKey)
    THEN checkSwitchGateServer(Status(FALSE, 0, 0, 0, << >>), c.Server, upstreamKey,
                               c.Clients, r.agent)
    ELSE checkPrometheusServer(Status(FALSE, 0, 0, 0, << >>), c.Server, r.prom)

\* A checkServer that reports a server reachable only when it is up too.
checkServerProbeWhenUp(c, r, upstreamKey) ==
    LET checked == sourceCheck(c, r, upstreamKey)
        p == externalCheck(c.Server, r.probe)
    IN  [ checked EXCEPT
            !.ExternalAccess = IF p.called THEN p.accessible /\ checked.IsUp
                               ELSE checked.IsUp,
            !.ExternalLatency = IF p.called THEN p.latency ELSE @,
            !.ExternalError = IF p.called /\ ~p.err.nil THEN p.err.text ELSE @ ]

\* Checker.checkServer, with the answers of the sources and of the probe.
checkServerDetail(c, r, upstreamKey) ==
    LET checked == sourceCheck(c, r, upstreamKey)
        p == externalCheck(c.Server, r.probe)
    IN  [ checked EXCEPT
            !.ExternalAccess = IF p.called THEN p.accessible ELSE checked.IsUp,
            !.ExternalLatency = IF p.called THEN p.latency ELSE @,
            !.ExternalError = IF p.called /\ ~p.err.nil THEN p.err.text ELSE @ ]

\* The external operations of one check, in the order checkServer makes them.
callsOf(c, upstreamKey) ==
    (IF ~UsesSwitchGate(c, upstreamKey) THEN << "prometheus" >>
     ELSE IF upstreamKey \in c.Clients THEN << "switch-gate" >>
     ELSE << >>)
    \o (IF c.Server.ExternalCheck # NoTarget THEN << "probe" >> ELSE << >>)

\* What a check chose: its source, the upstream key and whether
\* c.switchGateClients holds a client under that key.
Pick(c, upstreamKey) ==
    IF UsesSwitchGate(c, upstreamKey)
    THEN [source |-> "switch-gate", key |-> upstreamKey,
          client |-> upstreamKey \in c.Clients, calls |-> callsOf(c, upstreamKey)]
    ELSE [source |-> "prometheus", key |-> "", client |-> FALSE,
          calls |-> callsOf(c, upstreamKey)]

\* The answers a configuration can meet; a source that the configuration
\* never asks stays silent, an up query or a job query that is never sent
\* has no answer, and there is a probe only for a server with ExternalCheck.
HasJob(server) == \E i \in DOMAIN server.Services : server.Services[i].Job # ""
AnswersOf(c) ==
    LET probes == IF c.Server.ExternalCheck = NoTarget
                  THEN { [dial |-> Refused, http |-> Refused] }
                  ELSE { n \in ProbeAnswers(c.Server.ExternalCheck) :
                           /\ n.dial \in { Connected(2), TimedOut, Refused }
                           /\ n.http \in { Response(200, 2), Response(404, 2),
                                           TimedOut, Refused } }
        proms == { q \in PromAnswers :
                     /\ q.upExact.ok => q.upRegex = NoAnswer
                     /\ ~HasJob(c.Server) => q.serviceUp = NoJobAnswers(Jobs) }
    IN  IF IsSwitchGateServer(c.Upstreams, c.Server.IP)
        THEN [ prom : { PromSilent }, agent : AgentAnswers, probe : probes ]
        ELSE [ prom : proms, agent : { AgentSilent }, probe : probes ]

InitCheck ==
    /\ conf \in CheckConfigs
    /\ resp \in AnswersOf(conf)
    /\ snap = NoSnap
    /\ level = ""
    /\ picks = << >>
    /\ probed = NoProbe
    /\ CheckerIdle
    /\ CallIdle
    /\ ExtIdle

\* One check of the server: c.checkServer(server, ...).
CheckOne ==
    /\ "Server" \in DOMAIN conf
    /\ Len(picks) < MaxChecks
    /\ picks = << >> \/ level # ""
    /\ \E upstreamKey \in GetUpstreamByIP(conf.Upstreams, conf.Server.IP) :
          /\ snap' = checkServerDetail(conf, resp, upstreamKey)
          /\ picks' = Append(picks, Pick(conf, upstreamKey))
    /\ probed' = externalCheck(conf.Server, resp.probe)
    /\ level' = ""
    /\ UNCHANGED << extVars, conf, resp, vars, callVars >>

NextCheck == CheckOne \/ Classify

\* Checks of one server under every drawn configuration and set of answers,
\* each followed by its classification.
SpecCheck == InitCheck /\ [][NextCheck]_allVars

\* The check whose snapshot is in snap.
LastPick == picks[Len(picks)]
Checked == picks # << >> /\ level # ""

\* ---------------------------------------------------------------- C17
\* C17: under one configuration every check of the server chooses the same
\* source and, on the tunnel path, the same upstream client, also when
\* several upstreams share the server's address.
C17_SameSourceAndClient ==
    \A i, j \in DOMAIN picks : picks[i] = picks[j]

\* The part of C17 that holds: the source (remote agent or metrics backend)
\* is the same for every check, and is the remote agent exactly when an
\* upstream flagged for switch-gate has the server's address.
C17_SameSourceKind ==
    \A i \in DOMAIN picks :
        picks[i].source = "switch-gate"
            <=> IsSwitchGateServer(conf.Upstreams, conf.Server.IP)

\* ---------------------------------------------------------------- C18
\* The up query reported the server up.
ReportedUp == LET up == IsUp(resp.prom.upExact, resp.prom.upRegex) IN up.ok /\ up.value

\* The field a metric query fills: its value when the query succeeded, zero
\* when it failed.
Filled(q) == IF q.ok THEN q.value ELSE 0
FilledGB(q, field) == IF q.ok THEN BytesToGB(q.value[field]) ELSE 0

\* C18: on the metrics path, when the up query reports the server up, the
\* snapshot is up whichever of the six metric queries fail; every failed
\* field is zero and every other field has its queried value; the level is
\* not Down, and is Degraded only for a queried value above its threshold
\* or a service that is down.  The snapshot is down exactly when the up query
\* fails in both match forms or the value read is not 1.
C18_MetricFailuresAbsorbed ==
    (Checked /\ LastPick.source = "prometheus") =>
        /\ snap.IsUp <=> ReportedUp
        /\ ~snap.IsUp <=>
              \/ ~resp.prom.upExact.ok /\ ~resp.prom.upRegex.ok
              \/ resp.prom.upExact.ok /\ resp.prom.upExact.value # 1
              \/ ~resp.prom.upExact.ok /\ resp.prom.upRegex.ok
                    /\ resp.prom.upRegex.value # 1
        /\ ReportedUp =>
              /\ snap.CPU = Filled(resp.prom.cpu)
              /\ snap.Memory = Filled(resp.prom.memory)
              /\ snap.MemoryUsedGB = FilledGB(resp.prom.memoryBytes, "used")
              /\ snap.MemoryTotalGB = FilledGB(resp.prom.memoryBytes, "total")
              /\ snap.Disk = Filled(resp.prom.disk)
              /\ snap.DiskUsedGB = FilledGB(resp.prom.diskBytes, "used")
              /\ snap.DiskTotalGB = FilledGB(resp.prom.diskBytes, "total")
              /\ snap.Uptime = Filled(resp.prom.uptime)
              /\ level # StatusDown
              /\ level = StatusDegraded =>
                    \/ resp.prom.cpu.ok /\ resp.prom.cpu.value > 80
                    \/ resp.prom.memory.ok /\ resp.prom.memory.value > 85
                    \/ resp.prom.disk.ok /\ resp.prom.disk.value > 85
                    \/ SomeServiceDown(snap.Services)

\* A server reported up by the regex form of the up query, whose CPU,
\* disk-bytes and uptime queries failed and whose other queries succeeded:
\* up, with those fields zero, the others set, and level Up.
C18_Witness ==
    /\ Checked /\ LastPick.source = "prometheus"
    /\ ~resp.prom.upExact.ok /\ resp.prom.upRegex = Ok(1)
    /\ ~resp.prom.cpu.ok /\ ~resp.prom.diskBytes.ok /\ ~resp.prom.uptime.ok
    /\ resp.prom.memory.ok /\ resp.prom.memoryBytes.ok /\ resp.prom.disk.ok
    /\ snap.IsUp /\ snap.CPU = 0 /\ snap.DiskTotalGB = 0 /\ snap.Uptime = 0
    /\ snap.Memory = 40 /\ snap.MemoryTotalGB = 4 /\ snap.Disk = 30
    /\ level = StatusUp

\* ---------------------------------------------------------------- C19
\* The check went through the tunnel: the chosen upstream has a client.
Tunnelled == Checked /\ LastPick.source = "switch-gate" /\ LastPick.client

\* C19: when the status fetch through the tunnel fails, the snapshot is
\* down, its service list is the one synthetic "switch-gate" entry, down and
\* with the error's text, without any declared service, and its level is
\* Down.
C19_FetchFailureOneEntry ==
    (Tunnelled /\ ~resp.agent.status.ok) =>
        /\ ~snap.IsUp
        /\ Len(snap.Services) = 1
        /\ snap.Services[1].Name = "switch-gate"
        /\ ~snap.Services[1].IsUp
        /\ snap.Services[1].Error = resp.agent.status.err
        /\ snap.Services[1].Error # ""
        /\ level = StatusDown

\* A failed status fetch for a server that declares two services.
C19_Witness ==
    /\ Tunnelled /\ ~resp.agent.status.ok
    /\ Len(conf.Server.Services) = 2
    /\ Len(snap.Services) = 1 /\ level = StatusDown

\* ---------------------------------------------------------------- C20
\* C20: when the status fetch through the tunnel succeeds, the snapshot is
\* up whether or not the node-metrics fetch succeeds; a failed node-metrics
\* fetch leaves CPU, memory and disk at zero; the level is never Down.
C20_NodeMetricsBestEffort ==
    (Tunnelled /\ resp.agent.status.ok) =>
        /\ snap.IsUp
        /\ level # StatusDown
        /\ ~resp.agent.node.ok =>
              snap.CPU = 0 /\ snap.Memory = 0 /\ snap.Disk = 0

\* A successful status fetch followed by a failed node-metrics fetch: up,
\* with CPU, memory and disk at zero.
C20_Witness ==
    /\ Tunnelled /\ resp.agent.status.ok /\ ~resp.agent.node.ok
    /\ snap.IsUp /\ snap.CPU = 0 /\ snap.Memory = 0 /\ snap.Disk = 0
    /\ level \in { StatusUp, StatusDegraded }

\* ============================================ callers running together
\* The goroutines that call the checker.
Callers == { 1, 2 }

\* A goroutine outside the checker.
Outside ==
    [op |-> "", pc |-> "idle", i |-> 0, pass |-> 0, fromCache |-> FALSE,
     statuses |-> << >>]

\* The fleets the callers run against.
SharedClouds ==
    { << Cloud("Prod", << Srv("b", "web", FALSE), Srv("a", "gw", FALSE) >>) >>,
      << Cloud("YC", << Srv("a", "gw-s3", TRUE) >>) >> }

\* What every fetch is answered while callers overlap.
SharedAnswer == [up |-> TRUE, probe |-> TRUE]

\* An access of the shared fields in progress: a read or a write of the map
\* c.cache, of c.cacheTime, or of both.
Access(kind, fields) == [kind |-> kind, fields |-> fields]
NoAccess == Access("", {})
Enter(p, kind, fields) == accesses' = [accesses EXCEPT ![p] = Access(kind, fields)]
Leave(p) == accesses' = [accesses EXCEPT ![p] = NoAccess]

\* Another goroutine is inside mapassign on c.cache (the runtime's
\* hashWriting flag is set).
OtherStoring(p) == \E q \in Callers \ { p } : callers[q].pc = "storing"

At(p, pc) == ~fault /\ callers[p].pc = pc
Goto(p, rec) == callers' = [callers EXCEPT ![p] = rec]

InitShared ==
    /\ Clouds \in SharedClouds
    /\ now = 0
    /\ cache = NoCache
    /\ cacheTime = ZeroTime
    /\ passes = 0
    /\ last = [op |-> "none"]
    /\ lastAll = << >>
    /\ dropped = {}
    /\ CheckIdle
    /\ callers = [p \in Callers |-> Outside]
    /\ accesses = [p \in Callers |-> NoAccess]
    /\ fault = FALSE
    /\ ExtIdle

\* The server the caller's loop is at.
ServerAt(p) == AllServers[callers[p].i]
LastServer(p) == callers[p].i = Len(AllServers)

\* A caller enters CheckAll() (while fewer than MaxPasses refresh passes have
\* been started).
BeginCheckAll(p) ==
    /\ At(p, "idle")
    /\ passes < MaxPasses
    /\ Goto(p, [Outside EXCEPT !.op = "CheckAll", !.pc = "valid"])
    /\ UNCHANGED << extVars, vars, checkVars, accesses, fault >>

\* A caller enters CheckAllForce(): refreshAll at once.
BeginCheckAllForce(p) ==
    /\ At(p, "idle")
    /\ passes < MaxPasses
    /\ passes' = passes + 1
    /\ Goto(p, [Outside EXCEPT !.op = "CheckAllForce", !.pc = "fetch", !.i = 1,
                               !.pass = passes + 1])
    /\ UNCHANGED << extVars, Clouds, now, cache, cacheTime, last, lastAll, dropped,
                    checkVars, accesses, fault >>

\* A caller enters InvalidateCache().
BeginInvalidateCache(p) ==
    /\ At(p, "idle")
    /\ Goto(p, [Outside EXCEPT !.op = "InvalidateCache", !.pc = "clear"])
    /\ UNCHANGED << extVars, vars, checkVars, accesses, fault >>

\* isCacheValid starts to read len(c.cache) and c.cacheTime.
ValidBegin(p) ==
    /\ At(p, "valid")
    /\ Enter(p, "read", { "cache", "cacheTime" })
    /\ Goto(p, [callers[p] EXCEPT !.pc = "validating"])
    /\ UNCHANGED << extVars, vars, checkVars, fault >>

\* isCacheValid has read them: CheckAll takes the cached path, or starts
\* refreshAll.
ValidEnd(p) ==
    /\ At(p, "validating")
    /\ Leave(p)
    /\ IF isCacheValid(cache, cacheTime)
       THEN /\ Goto(p, [callers[p] EXCEPT !.pc = "read", !.fromCache = TRUE, !.i = 1])
            /\ passes' = passes
       ELSE /\ Goto(p, [callers[p] EXCEPT !.pc = "fetch", !.i = 1,
                                          !.pass = passes + 1])
            /\ passes' = passes + 1
    /\ UNCHANGED << extVars, Clouds, now, cache, cacheTime, last, lastAll, dropped,
                    checkVars, fault >>

\* refreshAll: c.checkServer for the next server, outside any shared field.
Fetch(p) ==
    /\ At(p, "fetch")
    /\ Goto(p, [callers[p] EXCEPT
                  !.pc = "store",
                  !.statuses = Append(@, checkServer(ServerAt(p).server,
                                                     ServerAt(p).cloudName,
                                                     SharedAnswer, callers[p].pass))])
    /\ UNCHANGED << extVars, vars, checkVars, accesses, fault >>

\* refreshAll: the assignment c.cache[server.ID] = status begins.
StoreBegin(p) ==
    /\ At(p, "store")
    /\ Enter(p, "write", { "cache" })
    /\ Goto(p, [callers[p] EXCEPT !.pc = "storing"])
    /\ UNCHANGED << extVars, vars, checkVars, fault >>

\* The runtime, entering mapassign while another goroutine is inside it,
\* stops the program: "fatal error: concurrent map writes".
ConcurrentMapWrites(p) ==
    /\ At(p, "store")
    /\ OtherStoring(p)
    /\ fault' = TRUE
    /\ UNCHANGED << extVars, vars, checkVars, callers, accesses >>

\* refreshAll: the assignment is done; on to the next server, or to the
\* timestamp after the last one.
StoreEnd(p) ==
    /\ At(p, "storing")
    /\ Leave(p)
    /\ cache' = CacheWrite(cache, callers[p].statuses[callers[p].i])
    /\ Goto(p, [callers[p] EXCEPT
                  !.pc = IF LastServer(p) THEN "stamp" ELSE "fetch",
                  !.i = IF LastServer(p) THEN @ ELSE @ + 1])
    /\ UNCHANGED << extVars, Clouds, now, cacheTime, passes, last, lastAll, dropped,
                    checkVars, fault >>

\* refreshAll: the assignment c.cacheTime = time.Now() begins.
StampBegin(p) ==
    /\ At(p, "stamp")
    /\ Enter(p, "write", { "cacheTime" })
    /\ Goto(p, [callers[p] EXCEPT !.pc = "stamping"])
    /\ UNCHANGED << extVars, vars, checkVars, fault >>

\* refreshAll: the timestamp is written; the call has its list.
StampEnd(p) ==
    /\ At(p, "stamping")
    /\ Leave(p)
    /\ cacheTime' = now
    /\ Goto(p, [callers[p] EXCEPT !.pc = "done"])
    /\ UNCHANGED << extVars, Clouds, now, cache, passes, last, lastAll, dropped,
                    checkVars, fault >>

\* getCachedStatuses: the lookup c.cache[server.ID] begins.
ReadBegin(p) ==
    /\ At(p, "read")
    /\ Enter(p, "read", { "cache" })
    /\ Goto(p, [callers[p] EXCEPT !.pc = "reading"])
    /\ UNCHANGED << extVars, vars, checkVars, fault >>

\* The runtime, entering mapaccess while another goroutine is inside
\* mapassign, stops the program: "fatal error: concurrent map read and map
\* write".
ConcurrentMapReadWrite(p) ==
    /\ At(p, "read")
    /\ OtherStoring(p)
    /\ fault' = TRUE
    /\ UNCHANGED << extVars, vars, checkVars, callers, accesses >>

\* getCachedStatuses: the lookup is done; the snapshot joins the list when
\* the ID was there.
ReadEnd(p) ==
    /\ At(p, "reading")
    /\ Leave(p)
    /\ LET id == ServerAt(p).server.ID IN
       Goto(p, [callers[p] EXCEPT
                  !.pc = IF LastServer(p) THEN "done" ELSE "read",
                  !.i = IF LastServer(p) THEN @ ELSE @ + 1,
                  !.statuses = IF id \in DOMAIN cache THEN Append(@, cache[id])
                               ELSE @])
    /\ UNCHANGED << extVars, vars, checkVars, fault >>

\* InvalidateCache: the assignment c.cache = make(map[string]*ServerStatus)
\* begins.
ClearBegin(p) ==
    /\ At(p, "clear")
    /\ Enter(p, "write", { "cache" })
    /\ Goto(p, [callers[p] EXCEPT !.pc = "clearing"])
    /\ UNCHANGED << extVars, vars, checkVars, fault >>

\* InvalidateCache: a new empty map is in place; the timestamp is next.
ClearEnd(p) ==
    /\ At(p, "clearing")
    /\ Leave(p)
    /\ cache' = NoCache
    /\ Goto(p, [callers[p] EXCEPT !.pc = "reset"])
    /\ UNCHANGED << extVars, Clouds, now, cacheTime, passes, last, lastAll, dropped,
                    checkVars, fault >>

\* InvalidateCache: the assignment c.cacheTime = time.Time{} begins.
ResetBegin(p) ==
    /\ At(p, "reset")
    /\ Enter(p, "write", { "cacheTime" })
    /\ Goto(p, [callers[p] EXCEPT !.pc = "resetting"])
    /\ UNCHANGED << extVars, vars, checkVars, fault >>

\* InvalidateCache: the zero time is in place.
ResetEnd(p) ==
    /\ At(p, "resetting")
    /\ Leave(p)
    /\ cacheTime' = ZeroTime
    /\ Goto(p, [callers[p] EXCEPT !.pc = "done"])
    /\ UNCHANGED << extVars, Clouds, now, cache, passes, last, lastAll, dropped,
                    checkVars, fault >>

\* The call returns to its caller.
Return(p) ==
    /\ At(p, "done")
    /\ Goto(p, Outside)
    /\ UNCHANGED << extVars, vars, checkVars, accesses, fault >>

\* The clock, while callers are inside the checker.
SharedTick == ~fault /\ Tick

NextShared ==
    \/ SharedTick
    \/ \E p \in Callers : BeginCheckAll(p)
    \/ \E p \in Callers : BeginCheckAllForce(p)
    \/ \E p \in Callers : BeginInvalidateCache(p)
    \/ \E p \in Callers : ValidBegin(p)
    \/ \E p \in Callers : ValidEnd(p)
    \/ \E p \in Callers : Fetch(p)
    \/ \E p \in Callers : StoreBegin(p)
    \/ \E p \in Callers : ConcurrentMapWrites(p)
    \/ \E p \in Callers : StoreEnd(p)
    \/ \E p \in Callers : StampBegin(p)
    \/ \E p \in Callers : StampEnd(p)
    \/ \E p \in Callers : ReadBegin(p)
    \/ \E p \in Callers : ConcurrentMapReadWrite(p)
    \/ \E p \in Callers : ReadEnd(p)
    \/ \E p \in Callers : ClearBegin(p)
    \/ \E p \in Callers : ClearEnd(p)
    \/ \E p \in Callers : ResetBegin(p)
    \/ \E p \in Callers : ResetEnd(p)
    \/ \E p \in Callers : Return(p)

\* The checker called from several goroutines at once: it takes no lock, so
\* the steps of the calls interleave at every access of a shared field.
SpecShared == InitShared /\ [][NextShared]_allVars

\* ---------------------------------------------------------------- C11
\* C11: the reads and writes of the cache map and of the refresh timestamp
\* exclude one another: while one caller is writing a field no other caller
\* is reading or writing that field.
C11_NoAccessDuringWrite ==
    \A p, q \in DOMAIN accesses :
        (p # q /\ accesses[p].kind = "write")
            => accesses[p].fields \cap accesses[q].fields = {}

\* ---------------------------------------------------------------- C12
\* The caller is in a CheckAll() that found the cache stale or empty and
\* runs refreshAll.
Refreshing(p) ==
    /\ callers[p].op = "CheckAll" /\ ~callers[p].fromCache
    /\ callers[p].pc \in { "fetch", "store", "storing", "stamp", "stamping", "done" }

\* The list holds one snapshot per configured server, in configuration order.
OnePerServer(list) ==
    /\ Len(list) = Len(AllServers)
    /\ \A i \in DOMAIN list : list[i].ID = AllServers[i].server.ID

\* C12: two CheckAll() calls that overlap on a stale or empty cache both run
\* refreshAll, and each of them returns one snapshot per configured server in
\* configuration order: neither is cut short.
C12_OverlappingRefreshesReturn ==
    /\ (\A p \in DOMAIN callers : Refreshing(p)) => ~fault
    /\ \A p \in DOMAIN callers :
          (Refreshing(p) /\ callers[p].pc = "done")
              => OnePerServer(callers[p].statuses)

\* The part of C12 that holds: refreshes are not deduplicated, and a
\* CheckAll() that gets to the end of its refreshAll has the whole list.
C12_RefreshReturnsAll ==
    \A p \in DOMAIN callers :
        (Refreshing(p) /\ callers[p].pc = "done")
            => /\ OnePerServer(callers[p].statuses)
               /\ \A i \in DOMAIN callers[p].statuses :
                     callers[p].statuses[i].pass = callers[p].pass

\* Two CheckAll() calls at the end of two complete refreshes of their own.
C12_BothRefreshed ==
    /\ \A p \in Callers : Refreshing(p) /\ callers[p].pc = "done"
    /\ callers[1].pass # callers[2].pass

\* ================================================ the probe on its own
\* The targets probed: a TCP one, an HTTP and an HTTPS one, and one that
\* http.NewRequestWithContext rejects.
ProbeTargets ==
    { Target("tcp://", "srv.example:22"), Target("http://", "srv.example"),
      Target("https://", "srv.example"), Target("https://", "bad host") }

InitProbe ==
    /\ \E t \in ProbeTargets :
          /\ conf = [Target |-> t]
          /\ resp \in [ probe : ProbeAnswers(t) ]
    /\ snap = NoSnap
    /\ level = ""
    /\ picks = << >>
    /\ probed = NoProbe
    /\ CheckerIdle
    /\ CallIdle
    /\ ExtIdle

\* c.checkExternal(checkURL)
Probe ==
    /\ "Target" \in DOMAIN conf
    /\ ~probed.called
    /\ probed' = checkExternal(conf.Target, resp.probe)
    /\ UNCHANGED << extVars, conf, resp, snap, level, picks, vars, callVars >>

NextProbe == Probe

\* checkExternal applied to every drawn target and answer of the network.
SpecProbe == InitProbe /\ [][NextProbe]_allVars

\* ---------------------------------------------------------------- C21
\* What the probe of the server under check returns for the drawn answers.
ExpectedProbe == checkExternal(conf.Server.ExternalCheck, resp.probe)

\* C21: a check of a server without a target makes no probe and reports the
\* server reachable exactly when it is up, on both source paths; a check of
\* a server with a target makes one probe, after its source fetch, and the
\* snapshot's reachable flag, latency and error text are the probe's,
\* whatever IsUp is.
C21_ReachableFromProbeOrUp ==
    Checked =>
        IF conf.Server.ExternalCheck = NoTarget
        THEN /\ ~probed.called
             /\ \A i \in DOMAIN LastPick.calls : LastPick.calls[i] # "probe"
             /\ snap.ExternalAccess = snap.IsUp
             /\ snap.ExternalLatency = 0 /\ snap.ExternalError = << >>
        ELSE /\ probed = ExpectedProbe
             /\ LastPick.calls[Len(LastPick.calls)] = "probe"
             /\ \A i \in 1..(Len(LastPick.calls) - 1) : LastPick.calls[i] # "probe"
             /\ snap.ExternalAccess = ExpectedProbe.accessible
             /\ snap.ExternalLatency = ExpectedProbe.latency
             /\ snap.ExternalError = ExpectedProbe.err.text

\* A server with a target that its source reports down while the probe
\* reaches it: not up, and reachable.
C21_Witness ==
    /\ Checked /\ conf.Server.ExternalCheck # NoTarget
    /\ LastPick.calls = << "prometheus", "probe" >>
    /\ ~snap.IsUp /\ snap.ExternalAccess /\ snap.ExternalLatency = 2

\* ---------------------------------------------------------------- C22
\* C22: a tcp:// target is reachable exactly when the connect succeeds; an
\* http or https target exactly when a response arrives with a code in
\* [200, 400); a response with another code gives (false, latency,
\* "HTTP <code>"); a connect failure or timeout gives (false, latency, an
\* error); reachable never comes with an error.
C22_ProbeOutcome ==
    probed.called =>
        LET tcp == HasPrefix(conf.Target, "tcp://")
            net == IF tcp THEN resp.probe.dial ELSE resp.probe.http
        IN  /\ tcp => (probed.accessible <=> net.ok)
            /\ (~tcp /\ ValidURL(conf.Target)) =>
                  /\ probed.accessible <=> (net.ok /\ net.code >= 200 /\ net.code < 400)
                  /\ (net.ok /\ ~(net.code >= 200 /\ net.code < 400)) =>
                        probed = Probed(FALSE, net.latency, Errorf(<< "HTTP ", net.code >>))
            /\ ((tcp \/ ValidURL(conf.Target)) /\ ~net.ok) =>
                  /\ ~probed.accessible
                  /\ probed.latency = net.latency
                  /\ ~probed.err.nil
            /\ probed.accessible => probed.err.nil

\* An HTTPS target answered with code 400: not reachable, error "HTTP 400".
C22_Witness ==
    /\ probed.called /\ HasPrefix(conf.Target, "https://")
    /\ resp.probe.http.ok /\ resp.probe.http.code = 400
    /\ ~probed.accessible /\ probed.err = Errorf(<< "HTTP ", 400 >>)

\* A TCP target whose dial times out: (false, the timeout, an error).
C22_TimeoutReached ==
    /\ probed.called /\ HasPrefix(conf.Target, "tcp://")
    /\ resp.probe.dial = TimedOut
    /\ probed = Probed(FALSE, ProbeTimeout, Errorf(<< "connection failed: ", "i/o timeout" >>))

\* ------------------------------------------------- call statistics
\* edge.Client: every exec runs the command over SSH and records the result
\* in the client's statistics under c.sshMu; GetSSHStats copies them under
\* the same lock.

\* At most MaxExecs executions are started in one behaviour, and at most
\* MaxReads reads of the statistics.
MaxExecs == 3
MaxReads == 2

\* The goroutines using the client.
Workers == { 1, 2 }

\* What execInternal returns as its error: nil, or one of its wrapped errors.
ExecErrors ==
    { Errorf(<< "ssh dial: ", "i/o timeout" >>),
      Errorf(<< "run command: ", "exit status 1" >>) }
ExecOutcomes == { Nil } \cup ExecErrors

\* A goroutine outside the client.
Away == [pc |-> "away"]

\* sync.Mutex.Lock without mutual exclusion.
LockAlways(p) == sshMu' = p

\* c.sshMu.Lock(): blocks while another goroutine holds the lock.
Lock(p) == sshMu = 0 /\ sshMu' = p
\* c.sshMu.Unlock()
Unlock == sshMu' = 0

\* An error branch that keeps the old text and time.
recordErrorKeeps(stats, err, at) == stats

\* The error branch of recordSSHResult after its increment: the text and the
\* time of the last error.
recordError(stats, err, at) ==
    [stats EXCEPT !.LastError = err.text, !.LastErrorAt = at]

\* A GetSSHStats that returns the counters only.
copyStatsCountsOnly(stats) ==
    [NoStats EXCEPT !.SuccessCount = stats.SuccessCount,
                    !.ErrorCount = stats.ErrorCount]

\* The SSHStats value GetSSHStats builds from the client's fields.
copyStats(stats) ==
    [SuccessCount |-> stats.SuccessCount, ErrorCount |-> stats.ErrorCount,
     LastLatency |-> stats.LastLatency, LastError |-> stats.LastError,
     LastErrorAt |-> stats.LastErrorAt]

Completed == completed.success + completed.error
Started == Completed + Cardinality({ p \in Workers : runs[p].pc \notin { "away", "reading" } })
Reads == Cardinality({ p \in Workers : "copy" \in DOMAIN runs[p] })

InitStats ==
    /\ Clouds = << Cloud("Prod", << Srv("a", "gw", FALSE) >>) >>
    /\ now = 0
    /\ cache = NoCache
    /\ cacheTime = ZeroTime
    /\ passes = 0
    /\ last = [op |-> "none"]
    /\ lastAll = << >>
    /\ dropped = {}
    /\ CheckIdle
    /\ CallIdle
    /\ sshStats = NoStats
    /\ sshMu = 0
    /\ runs = [p \in Workers |-> Away]
    /\ completed = NoneCompleted
    /\ settled = { NoStats }
    /\ JobIdle
    /\ TwinIdle
    /\ FrontIdle
    /\ HookIdle
    /\ LateIdle

StatFrame == UNCHANGED << vars, checkVars, callVars, jobVars, twin, front, hook, lateVars >>

\* Client.exec: start := time.Now()
BeginExec(p) ==
    /\ runs[p].pc = "away"
    /\ Started < MaxExecs
    /\ runs' = [runs EXCEPT ![p] = [pc |-> "exec", start |-> now]]
    /\ UNCHANGED << sshStats, sshMu, completed, settled >>
    /\ StatFrame

\* Client.exec: result, err := c.execInternal(cmd); latency := time.Since(start)
ExecInternal(p) ==
    /\ runs[p].pc = "exec"
    /\ \E err \in ExecOutcomes :
          runs' = [runs EXCEPT ![p] =
                      [pc |-> "record", err |-> err, latency |-> now - runs[p].start]]
    /\ UNCHANGED << sshStats, sshMu, completed, settled >>
    /\ StatFrame

\* recordSSHResult: c.sshMu.Lock()
RecordLock(p) ==
    /\ runs[p].pc = "record"
    /\ Lock(p)
    /\ runs' = [runs EXCEPT ![p].pc = "locked"]
    /\ UNCHANGED << sshStats, completed, settled >>
    /\ StatFrame

\* recordSSHResult: c.sshLastLatency = latency
RecordLatency(p) ==
    /\ runs[p].pc = "locked"
    /\ sshStats' = [sshStats EXCEPT !.LastLatency = runs[p].latency]
    /\ runs' = [runs EXCEPT ![p].pc = "count"]
    /\ UNCHANGED << sshMu, completed, settled >>
    /\ StatFrame

\* The counter recordSSHResult increments for an error value.
CounterOf(err) == IF err.nil THEN "SuccessCount" ELSE "ErrorCount"

\* recordSSHResult: the read of c.sshErrorCount++ or c.sshSuccessCount++
CountLoad(p) ==
    /\ runs[p].pc = "count"
    /\ runs' = [runs EXCEPT ![p] =
                   [pc |-> "loaded", err |-> runs[p].err, latency |-> runs[p].latency,
                    n |-> sshStats[CounterOf(runs[p].err)]]]
    /\ UNCHANGED << sshStats, sshMu, completed, settled >>
    /\ StatFrame

\* recordSSHResult: the write of c.sshErrorCount++ or c.sshSuccessCount++
CountStore(p) ==
    /\ runs[p].pc = "loaded"
    /\ sshStats' = [sshStats EXCEPT ![CounterOf(runs[p].err)] = runs[p].n + 1]
    /\ runs' = [runs EXCEPT ![p] =
                   [pc |-> IF runs[p].err.nil THEN "unlock" ELSE "error",
                    err |-> runs[p].err, latency |-> runs[p].latency]]
    /\ UNCHANGED << sshMu, completed, settled >>
    /\ StatFrame

\* recordSSHResult: c.sshLastError = err.Error(); c.sshLastErrorAt = time.Now()
RecordError(p) ==
    /\ runs[p].pc = "error"
    /\ sshStats' = recordError(sshStats, runs[p].err, now)
    /\ runs' = [runs EXCEPT ![p].pc = "unlock"]
    /\ UNCHANGED << sshMu, completed, settled >>
    /\ StatFrame

\* recordSSHResult: the deferred c.sshMu.Unlock(); exec returns.
RecordUnlock(p) ==
    /\ runs[p].pc = "unlock"
    /\ Unlock
    /\ runs' = [runs EXCEPT ![p] = Away]
    /\ completed' = IF runs[p].err.nil
                    THEN [completed EXCEPT !.success = @ + 1]
                    ELSE [completed EXCEPT !.error = @ + 1]
    /\ settled' = settled \cup { sshStats }
    /\ UNCHANGED sshStats
    /\ StatFrame

\* GetSSHStats: c.sshMu.Lock()
BeginGetSSHStats(p) ==
    /\ runs[p].pc = "away"
    /\ Reads < MaxReads \/ "copy" \in DOMAIN runs[p]
    /\ Lock(p)
    /\ runs' = [runs EXCEPT ![p] = [pc |-> "reading"]]
    /\ UNCHANGED << sshStats, completed, settled >>
    /\ StatFrame

\* GetSSHStats: return SSHStats{...}, with the deferred c.sshMu.Unlock()
EndGetSSHStats(p) ==
    /\ runs[p].pc = "reading"
    /\ Unlock
    /\ runs' = [runs EXCEPT ![p] = [pc |-> "away", copy |-> copyStats(sshStats)]]
    /\ UNCHANGED << sshStats, completed, settled >>
    /\ StatFrame

\* The clock advances while the goroutines run.
StatTick ==
    /\ Tick
    /\ \E p \in Workers : runs[p].pc # "away"

NextStats ==
    \/ \E p \in Workers :
          \/ BeginExec(p) \/ ExecInternal(p)
          \/ RecordLock(p) \/ RecordLatency(p) \/ CountLoad(p) \/ CountStore(p)
          \/ RecordError(p) \/ RecordUnlock(p)
          \/ BeginGetSSHStats(p) \/ EndGetSSHStats(p)
    \/ StatTick

\* Two goroutines executing commands on one client and reading its
\* statistics.
SpecStats == InitStats /\ [][NextStats]_allVars

\* ---------------------------------------------------------------- C23
\* The goroutines inside recordSSHResult whose increment is already written.
Counted(nil) ==
    { p \in Workers : /\ runs[p].pc \in { "error", "unlock" }
                      /\ runs[p].err.nil = nil }
\* The goroutines inside recordSSHResult that have written the latency.
Recording == { p \in Workers : runs[p].pc \in { "count", "loaded", "error", "unlock" } }

\* C23: under every interleaving of the executions of two goroutines, the
\* success counter is the number of executions that ended with a nil error
\* and the error counter the number that ended with an error, each execution
\* counted once as soon as its increment is written, so the two counters add
\* up to the completed executions when no execution is in progress; and the
\* recorded latency is that of the execution recording.
C23_NoLostUpdate ==
    /\ sshStats.SuccessCount = completed.success + Cardinality(Counted(TRUE))
    /\ sshStats.ErrorCount = completed.error + Cardinality(Counted(FALSE))
    /\ \A p \in Recording : sshStats.LastLatency = runs[p].latency
    /\ (\A p \in Workers : runs[p].pc \in { "away", "reading" }) =>
          sshStats.SuccessCount + sshStats.ErrorCount = Completed

\* Three executions done by both kinds of outcome, none in progress.
C23_Witness ==
    /\ \A p \in Workers : runs[p].pc = "away"
    /\ completed.success >= 1 /\ completed.error >= 2
    /\ sshStats.SuccessCount + sshStats.ErrorCount = 3

\* One goroutine waits for the lock while the other is between the read and
\* the write of its increment.
C23_Contended ==
    \E p, q \in Workers :
        /\ runs[p].pc = "record" /\ runs[q].pc = "loaded" /\ sshMu = q
        /\ runs[p].err.nil = runs[q].err.nil

\* ---------------------------------------------------------------- C24
\* C24: no step lowers the success counter or the error counter; no step of
\* an execution that ended with a nil error changes the last-error text or
\* time, and the step that records a failure sets the text to the error's and
\* the time to the clock's; a read changes no field of the statistics, and
\* the copy it returns is a value the statistics had when no
\* recordSSHResult was under way.
C24_CountersOnlyGrow ==
    [][ /\ sshStats'.SuccessCount >= sshStats.SuccessCount
        /\ sshStats'.ErrorCount >= sshStats.ErrorCount
        /\ \A p \in Workers :
              /\ (runs[p] # runs'[p] /\ runs[p].pc \in { "locked", "count", "loaded", "unlock" }
                    /\ runs[p].err.nil) =>
                    /\ sshStats'.LastError = sshStats.LastError
                    /\ sshStats'.LastErrorAt = sshStats.LastErrorAt
              /\ (runs[p] # runs'[p] /\ runs[p].pc = "error") =>
                    /\ sshStats'.LastError = runs[p].err.text
                    /\ sshStats'.LastErrorAt = now
              /\ (runs[p] # runs'[p] /\ (runs[p].pc = "reading" \/ runs'[p].pc = "reading")) =>
                    sshStats' = sshStats
              /\ "copy" \in DOMAIN runs'[p] => runs'[p].copy \in settled'
      ]_allVars

\* The copy GetSSHStats returned is, in every field, a value the statistics
\* had at a moment when no recordSSHResult was under way: it never shows the
\* counter of a call without that call's latency and last error.
C24_ConsistentCopy ==
    \A p \in Workers : "copy" \in DOMAIN runs[p] => runs[p].copy \in settled

\* A failure recorded after an earlier failure with another text and at a
\* later time, then a success: the text and time are those of the second
\* failure, and a copy was taken in between.
C24_Witness ==
    /\ completed.error = 2 /\ completed.success = 1
    /\ sshStats.LastErrorAt > 0
    /\ sshStats.LastError = << "run command: ", "exit status 1" >>
    /\ \E p \in Workers :
          /\ "copy" \in DOMAIN runs[p]
          /\ runs[p].copy.ErrorCount = 1 /\ runs[p].copy.SuccessCount = 0
          /\ runs[p].copy.LastError = << "ssh dial: ", "i/o timeout" >>
          /\ runs[p].copy.LastErrorAt = 0
          /\ runs[p].copy # sshStats

\* --------------------------------------------- external operations
\* A call on the checker or on a switch-gate client, as the sequence of
\* external operations it makes, each one waiting for its peer.

\* At most MaxCalls calls are made in one behaviour.
MaxCalls == 2

\* The switch-gate clients of the bot, by upstream name.
Targets == { "vps", "vps2" }

\* No timeout is set for an operation.
NoTimeout == 0
\* Timeout: 10 * time.Second, of the metrics client, the probe client, the
\* probe's dial and the SSH configuration.
OpTimeout == 10

\* switchgate.Client.exec, as the steps that wait for the network, named by
\* the prefix of the error each one returns.  ssh.Dial to the jump host is
\* two of them with the one prefix "dial jump host": the TCP connect
\* (net.DialTimeout) and the SSH handshake on that connection.
ExecSteps ==
    << "dial jump host", "dial jump host (handshake)", "dial target via jump",
       "ssh client conn", "new session", "run command" >>

\* GetMemoryBytes and GetDiskBytes: the request for the total, then the
\* request for what is available, each one an HTTP request of its own that
\* ends the call when it fails.
BytesSteps == << "query", "query" >>

\* The steps of an operation: one HTTP request, one dial, the two requests
\* of a bytes call, or the steps of exec.
StepsOf(kind) ==
    IF kind = "exec" THEN ExecSteps
    ELSE IF kind = "queries" THEN BytesSteps
    ELSE << kind >>


\* The time after which a step gives up on a silent peer: the http.Client
\* timeout of a metrics query, the context timeout of checkHTTP, the
\* DialTimeout of checkTCP, the Timeout of jumpConfig for the TCP connect of
\* ssh.Dial.  ClientConfig.Timeout bounds that connect only: the SSH
\* handshake with the jump host, the dial of the target through it, the
\* handshake on that connection, the session request and session.Run are
\* given no deadline.
TimeoutOf(step) ==
    IF step \in { "query", "http", "tcp", "dial jump host" } THEN OpTimeout ELSE NoTimeout

\* One external operation: after it succeeds the next onOk operations are
\* skipped, after it fails the next onFail ones, and after an up query
\* answered with a value other than 1 the next onDown ones.
UpOp(kind, name, target, onOk, onDown, onFail) ==
    [kind |-> kind, name |-> name, target |-> target, onOk |-> onOk,
     onDown |-> onDown, onFail |-> onFail]
Op(kind, name, target, onOk, onFail) == UpOp(kind, name, target, onOk, onOk, onFail)

\* checkPrometheusServer: IsUp asks the exact instance and, on an error, the
\* regex; the six metric queries run only when IsUp returned true, that is
\* when the query that was answered had the value 1.
PrometheusOps ==
    << UpOp("query", "IsUp exact", "", 1, 7, 0), UpOp("query", "IsUp regex", "", 0, 6, 6),
       Op("query", "GetCPU", "", 0, 0), Op("query", "GetMemory", "", 0, 0),
       Op("queries", "GetMemoryBytes", "", 0, 0), Op("query", "GetDisk", "", 0, 0),
       Op("queries", "GetDiskBytes", "", 0, 0), Op("query", "GetUptime", "", 0, 0) >>

\* checkSwitchGateServer: GetStatus, and GetNodeMetrics when it succeeded.
SwitchGateOps(target) ==
    << Op("exec", "GetStatus", target, 0, 1), Op("exec", "GetNodeMetrics", target, 0, 0) >>

\* checkExternal: a dial for a tcp:// target, an HTTP request otherwise.
ProbeOps(checkURL) ==
    IF checkURL = NoTarget THEN << >>
    ELSE IF HasPrefix(checkURL, "tcp://") THEN << Op("tcp", "checkTCP", "", 0, 0) >>
    ELSE << Op("http", "checkHTTP", "", 0, 0) >>

\* checkServer: the operations of the source, then those of the probe.
ServerOps(c, upstreamKey) ==
    (IF ~UsesSwitchGate(c, upstreamKey) THEN PrometheusOps
     ELSE IF upstreamKey \in c.Clients THEN SwitchGateOps(upstreamKey)
     ELSE << >>)
    \o ProbeOps(c.Server.ExternalCheck)

\* The servers of the fleets: behind the metrics backend or behind the
\* switch-gate client "vps", without a target or with one.
OpsServers ==
    { c \in CheckConfigs :
        /\ c.Server.Services = << >>
        /\ c.Upstreams \in { "direct" :> Upstream(ServerIP, FALSE),
                             "vps" :> Upstream(ServerIP, TRUE) }
        /\ c.Clients = { k \in DOMAIN c.Upstreams : c.Upstreams[k].SwitchGate } }

\* The one key GetUpstreamByIP returns for such a server.
KeyOf(c) == CHOOSE k \in GetUpstreamByIP(c.Upstreams, c.Server.IP) : TRUE

RECURSIVE FleetOps(_)
\* refreshAll: the checks of the servers, one after the other.
FleetOps(fleet) ==
    IF fleet = << >> THEN << >>
    ELSE ServerOps(Head(fleet), KeyOf(Head(fleet))) \o FleetOps(Tail(fleet))

\* The fleets: one server, or two.
Fleets == { << c >> : c \in OpsServers } \cup { << c, d >> : c, d \in OpsServers }

\* The calls on the checker, and whether each one answers from the cache
\* when it is valid.
CheckerCalls == { "CheckAll", "CheckAllForce", "CheckServer", "CheckServerForce" }
UsesCache(call) == call \in { "CheckAll", "CheckServer" }

\* The operations of a call on the checker: none on a valid cache for the
\* calls that use it, the first server's for a call on one server, the
\* fleet's for a pass.
CallOps(call, fleet, valid) ==
    IF UsesCache(call) /\ valid THEN << >>
    ELSE IF call \in { "CheckServer", "CheckServerForce" }
         THEN ServerOps(fleet[1], KeyOf(fleet[1]))
         ELSE FleetOps(fleet)

\* The remote calls of a switch-gate client the bot makes itself.
ClientCalls == { "GetStatus", "GetStatusWithCheck", "SetMode", "GetExternalIP", "Restart" }

NoCalls == [t \in Targets |-> NoneCompleted]
Idle(made) == [pc |-> "idle", made |-> made]
Called(made, call, ops) ==
    [pc |-> "called", made |-> made, call |-> call, ops |-> ops, step |-> 1,
     waiting |-> FALSE, elapsed |-> 0, bound |-> 0]

InitOps ==
    /\ Clouds = << Cloud("Prod", << Srv("a", "gw", FALSE) >>) >>
    /\ now = 0
    /\ cache = NoCache
    /\ cacheTime = ZeroTime
    /\ passes = 0
    /\ last = [op |-> "none"]
    /\ lastAll = << >>
    /\ dropped = {}
    /\ CheckIdle
    /\ CallIdle
    /\ StatIdle
    /\ inflight = Idle(0)
    /\ sgCalls = NoCalls
    /\ TwinIdle
    /\ FrontIdle
    /\ HookIdle
    /\ LateIdle

OpsFrame == UNCHANGED << vars, checkVars, callVars, statVars, twin, front, hook, lateVars >>

\* A call on the checker begins.
CallChecker ==
    /\ inflight.pc = "idle" /\ inflight.made < MaxCalls
    /\ \E call \in CheckerCalls, fleet \in Fleets, valid \in BOOLEAN :
          inflight' = Called(inflight.made + 1, call, CallOps(call, fleet, valid))
    /\ UNCHANGED sgCalls
    /\ OpsFrame

\* A handler of the bot calls a switch-gate client.
CallClient ==
    /\ inflight.pc = "idle" /\ inflight.made < MaxCalls
    /\ \E call \in ClientCalls, t \in Targets :
          inflight' = Called(inflight.made + 1, call, << Op("exec", call, t, 0, 0) >>)
    /\ UNCHANGED sgCalls
    /\ OpsFrame

Stepping == inflight.pc = "called" /\ inflight.ops # << >>
CurrentOp == inflight.ops[1]
CurrentStep == StepsOf(CurrentOp.kind)[inflight.step]

\* The operation under way ends, with or without an error (up: the value of
\* an answer is 1): a remote call of
\* a switch-gate client has returned (exec keeps no count of it), and the
\* call goes on with the operations that follow.
FinishOp(ok, up, waited) ==
    LET skip == IF ~ok THEN CurrentOp.onFail
                ELSE IF up THEN CurrentOp.onOk ELSE CurrentOp.onDown
        left == SubSeq(inflight.ops, 2 + skip, Len(inflight.ops))
    IN  /\ inflight' = [inflight EXCEPT !.ops = left, !.step = 1, !.waiting = FALSE,
                               !.elapsed = @ + waited,
                               !.bound = @ + TimeoutOf(CurrentStep)]
        /\ sgCalls' = IF CurrentOp.kind # "exec" THEN sgCalls
                      ELSE IF ok
                      THEN [sgCalls EXCEPT ![CurrentOp.target].success = @ + 1]
                      ELSE [sgCalls EXCEPT ![CurrentOp.target].error = @ + 1]

\* The peer answers the step under way.
StepOk ==
    /\ Stepping /\ ~inflight.waiting
    /\ IF inflight.step < Len(StepsOf(CurrentOp.kind))
       THEN /\ inflight' = [inflight EXCEPT !.step = @ + 1, !.bound = @ + TimeoutOf(CurrentStep)]
            /\ UNCHANGED sgCalls
       ELSE FinishOp(TRUE, TRUE, 0)
    /\ OpsFrame

\* The metrics backend answers an up query with a value other than 1: IsUp
\* returns false without an error.
StepDown ==
    /\ Stepping /\ ~inflight.waiting
    /\ CurrentOp.name \in { "IsUp exact", "IsUp regex" }
    /\ FinishOp(TRUE, FALSE, 0)
    /\ OpsFrame

\* The peer refuses the step under way, or answers with an error.
StepFail ==
    /\ Stepping /\ ~inflight.waiting
    /\ FinishOp(FALSE, FALSE, 0)
    /\ OpsFrame

\* The peer does not answer.
StepSilent ==
    /\ Stepping /\ ~inflight.waiting
    /\ inflight' = [inflight EXCEPT !.waiting = TRUE]
    /\ UNCHANGED sgCalls
    /\ OpsFrame

\* The timeout of the step under way expires.
StepExpire ==
    /\ Stepping /\ inflight.waiting
    /\ TimeoutOf(CurrentStep) # NoTimeout
    /\ FinishOp(FALSE, FALSE, TimeoutOf(CurrentStep))
    /\ OpsFrame

\* The call returns.
ReturnCall ==
    /\ inflight.pc = "called" /\ inflight.ops = << >>
    /\ inflight' = [pc |-> "returned", made |-> inflight.made, call |-> inflight.call,
               elapsed |-> inflight.elapsed, bound |-> inflight.bound]
    /\ UNCHANGED sgCalls
    /\ OpsFrame

\* The caller goes on to its next call.
NextCall ==
    /\ inflight.pc = "returned"
    /\ inflight' = Idle(inflight.made)
    /\ UNCHANGED sgCalls
    /\ OpsFrame

NextOps ==
    CallChecker \/ CallClient \/ StepOk \/ StepDown \/ StepFail \/ StepSilent \/ StepExpire
    \/ ReturnCall \/ NextCall

\* Calls on the checker and on the switch-gate clients, one at a time.
SpecOps == InitOps /\ [][NextOps]_allVars

\* The same, where a call that can take a step eventually takes one: the
\* goroutine making the call is scheduled, and a peer that is going to answer
\* answers.
SpecOpsFair == SpecOps /\ WF_allVars(NextOps)

\* ---------------------------------------------------------------- C25
\* The statistics objects the process holds, by the endpoint they describe:
\* the fields of the edge client.  switchgate.Client declares no counter.
EndpointStats == "edge-gateway" :> sshStats

\* C25: every switch-gate client whose remote calls have returned has
\* statistics of its own, and their success and error counters are the
\* numbers of its calls that returned nil and an error.
C25_TargetCallsCounted ==
    \A t \in Targets :
        sgCalls[t] # NoneCompleted =>
            /\ t \in DOMAIN EndpointStats
            /\ EndpointStats[t].SuccessCount = sgCalls[t].success
            /\ EndpointStats[t].ErrorCount = sgCalls[t].error

\* ---------------------------------------------------------------- C27
\* C27: every call on the checker that has begun eventually returns.
C27_EveryCallReturns ==
    (inflight.pc = "called" /\ inflight.call \in CheckerCalls) ~> (inflight.pc = "returned")

\* A call none of whose operations is a tunnelled exec eventually returns.
C27_BoundedCallsReturn ==
    (/\ inflight.pc = "called" /\ inflight.call \in CheckerCalls
     /\ \A i \in DOMAIN inflight.ops : inflight.ops[i].kind # "exec")
        ~> (inflight.pc = "returned")

\* A call has waited no longer than the timeouts of the steps it made add up
\* to.
C27_WaitWithinTimeouts ==
    inflight.pc \in { "called", "returned" } => inflight.elapsed <= inflight.bound

\* A check of a switch-gate server waits for the remote command, which has no
\* deadline.
C27_Blocked ==
    /\ Stepping /\ inflight.call = "CheckServerForce" /\ inflight.waiting
    /\ CurrentStep = "run command" /\ TimeoutOf(CurrentStep) = NoTimeout

\* ------------------------------------------- two passes side by side
\* refreshAll over a fleet of two servers, run twice against answers that
\* are the same for server A and may differ for server B.

\* The servers of the fleet: behind the metrics backend or behind the
\* switch-gate client, each with a target.
TwinConfigs == { c \in OpsServers : c.Server.ExternalCheck # NoTarget }

\* The metrics backend answers every query of a server that is up.
PromFine ==
    [ upExact |-> Ok(1), upRegex |-> NoAnswer, cpu |-> Ok(50), memory |-> Ok(40),
      memoryBytes |-> Ok([used |-> 2097152, total |-> 4194304]), disk |-> Ok(30),
      diskBytes |-> Ok([used |-> 3145728, total |-> 10485760]),
      uptime |-> Ok(3600), serviceUp |-> NoJobAnswers(Jobs) ]

\* What a server's source and probe answer: the source answers or fails,
\* the probe answers or is refused.
TwinAnswers(c) ==
    { r \in AnswersOf(c) :
        /\ r.prom \in { PromSilent, PromFine }
        /\ r.agent = AgentSilent
           \/ /\ r.agent.status \in { Ok([Uptime |-> "72h3m0s"]),
                                      Failed("dial jump host: i/o timeout") }
              /\ r.agent.node = Ok(NodeMetrics(40, 30, 25))
        /\ r.probe.dial \in { Connected(2), Refused }
        /\ r.probe.http \in { Response(200, 2), Refused } }

\* The IDs of the two servers: a second cloud may declare the ID of the
\* first again.
TwinIDs == { << "a", "b" >>, << "b", "a" >>, << "a", "a" >> }

\* One pass: the index of the next server, the list built so far and the
\* cache.
NoPass == [i |-> 1, statuses |-> << >>, cache |-> NoCache, done |-> FALSE]

InitTwin ==
    /\ Clouds = << Cloud("Prod", << Srv("a", "gw", FALSE) >>) >>
    /\ now = 0
    /\ cache = NoCache
    /\ cacheTime = ZeroTime
    /\ passes = 0
    /\ last = [op |-> "none"]
    /\ lastAll = << >>
    /\ dropped = {}
    /\ CheckIdle
    /\ CallIdle
    /\ StatIdle
    /\ JobIdle
    /\ FrontIdle
    /\ HookIdle
    /\ LateIdle
    /\ \E ids \in TwinIDs, a \in { 1, 2 }, cA \in TwinConfigs, cB \in TwinConfigs :
       \E rA \in TwinAnswers(cA), rB1 \in TwinAnswers(cB), rB2 \in TwinAnswers(cB) :
          /\ rB1 # rB2
          /\ twin = [ a |-> a,
                     servers |-> [ i \in { 1, 2 } |->
                                     [id |-> ids[i], c |-> IF i = a THEN cA ELSE cB] ],
                     answers |-> << [ i \in { 1, 2 } |-> IF i = a THEN rA ELSE rB1 ],
                                    [ i \in { 1, 2 } |-> IF i = a THEN rA ELSE rB2 ] >>,
                     pass |-> << NoPass, NoPass >> ]

\* c.cache[server.ID] = status
store(m, id, status) == (id :> status) @@ m

\* One iteration of refreshAll's loop in pass k: the check of the next
\* server, its snapshot appended to the list and written to the cache.
TwinCheck(k) ==
    /\ "pass" \in DOMAIN twin
    /\ twin.pass[k].i <= 2
    /\ LET p == twin.pass[k]
           server == twin.servers[p.i]
           status == [ checkServerDetail(server.c, twin.answers[k][p.i], KeyOf(server.c))
                         EXCEPT !.ID = server.id ]
       IN  twin' = [twin EXCEPT !.pass[k] =
                       [i |-> p.i + 1, statuses |-> Append(p.statuses, status),
                        cache |-> store(p.cache, server.id, status), done |-> FALSE]]
    /\ UNCHANGED << vars, checkVars, callVars, statVars, jobVars, front, hook, lateVars >>

\* refreshAll returns the list of pass k.
TwinReturn(k) ==
    /\ "pass" \in DOMAIN twin
    /\ twin.pass[k].i = 3 /\ ~twin.pass[k].done
    /\ twin' = [twin EXCEPT !.pass[k].done = TRUE]
    /\ UNCHANGED << vars, checkVars, callVars, statVars, jobVars, front, hook, lateVars >>

NextTwin == \E k \in { 1, 2 } : TwinCheck(k) \/ TwinReturn(k)

\* Two passes over the same fleet that differ in the answers for server B
\* only.
SpecTwin == InitTwin /\ [][NextTwin]_allVars

\* ---------------------------------------------------------------- C26
\* Pass k has checked server A.
CheckedA(k) == twin.pass[k].i > twin.a
\* The snapshot pass k computed for server A, and the ID of A.
SnapshotA(k) == twin.pass[k].statuses[twin.a]
IDofA == twin.servers[twin.a].id

\* C26: the snapshot a pass computes for server A is the same in the two
\* passes, whatever B's source and probe answer; and in each pass, from the
\* check of A on, through the check of B and to the return, that snapshot is
\* the entry of A in the list and the entry under A's ID in the cache.
C26_SnapshotIndependent ==
    /\ (CheckedA(1) /\ CheckedA(2)) =>
          /\ SnapshotA(1) = SnapshotA(2)
          /\ twin.pass[1].cache[IDofA] = twin.pass[2].cache[IDofA]
    /\ \A k \in { 1, 2 } :
          CheckedA(k) => twin.pass[k].cache[IDofA] = SnapshotA(k)

\* The same for the result list alone.
C26_ListIndependent ==
    (CheckedA(1) /\ CheckedA(2)) => SnapshotA(1) = SnapshotA(2)

\* The same for a fleet whose two servers have different IDs.
C26_IndependentUniqueIDs ==
    twin.servers[1].id # twin.servers[2].id => C26_SnapshotIndependent

\* Both passes are done; B's source failed in one pass and answered in the
\* other, and A is up in both.
C26_BothDone ==
    /\ twin.pass[1].done /\ twin.pass[2].done
    /\ twin.servers[1].id # twin.servers[2].id /\ twin.a = 1
    /\ SnapshotA(1).IsUp
    /\ twin.pass[1].statuses[2].IsUp /\ ~twin.pass[2].statuses[2].IsUp

\* ------------------------------------------------------ the front end
\* The Telegram handlers that show the health of the fleet: the /health and
\* /infra commands and the callbacks of their keyboards.

\* At most MaxUpdates updates are handled in one behaviour.
MaxUpdates == 3

\* The servers a callback may name: "a" is configured, "c" is not.
FrontServers == { "a", "c" }

\* What the checker returns to a front end that holds one: Ping's error, and
\* the error of a call on one server.
PingResults == { Nil, Errorf(<< "prometheus not reachable" >>) }
CheckServerResult(serverID) ==
    IF serverID = "a" THEN Nil ELSE Errorf(<< "server not found: ", serverID >>)

\* What handling one update did: the text sent or edited in, the toast of
\* the callback answer, the methods called on b.healthChecker, and whether
\* one of them was called on a nil checker, which panics at its first
\* statement.
Handled(update, text, toast, calls, checker) ==
    [update |-> update, text |-> text, toast |-> toast, calls |-> calls,
     panic |-> checker = "nil" /\ calls # << >>]

\* A buildHealthMessage that takes the cache path whatever force is.
buildHealthMessageCached(force, checker) ==
    [calls |-> << "CheckAll" >>,
     text |-> IF checker = "nil" THEN "" ELSE "Infrastructure Health"]

\* Bot.buildHealthMessage(force), from its call on the checker on.
buildHealthMessage(force, checker) ==
    [calls |-> << IF force THEN "CheckAllForce" ELSE "CheckAll" >>,
     text |-> IF checker = "nil" THEN "" ELSE "Infrastructure Health"]

\* Bot.buildServerDetailMessage(serverID, source, force)
buildServerDetailMessage(serverID, force, checker) ==
    [calls |-> << IF force THEN "CheckServerForce" ELSE "CheckServer" >>,
     text |-> IF checker = "nil" THEN ""
              ELSE IF CheckServerResult(serverID).nil THEN "server detail"
              ELSE "Error: server not found"]

\* Bot.handleHealth: the /health command.
handleHealth(enabled, checker, ping) ==
    IF ~enabled
    THEN Handled(<< "/health" >>, "Infrastructure monitoring is not configured", "", << >>, checker)
    ELSE IF checker = "nil"
    THEN Handled(<< "/health" >>, "Health checker not initialized", "", << >>, checker)
    ELSE IF ~ping.nil
    THEN Handled(<< "/health" >>, "Prometheus not reachable", "", << "Ping" >>, checker)
    ELSE Handled(<< "/health" >>, buildHealthMessage(TRUE, checker).text, "",
                 << "Ping" >> \o buildHealthMessage(TRUE, checker).calls, checker)

\* Bot.handleInfra: the /infra command.
handleInfra(enabled, checker) ==
    IF ~enabled
    THEN Handled(<< "/infra" >>, "Infrastructure monitoring is not configured", "", << >>, checker)
    ELSE Handled(<< "/infra" >>, "Infrastructure", "", << >>, checker)

\* Bot.handleInfraCallback for the callback data parts.
handleInfraCallback(parts, checker) ==
    LET update == << "callback" >> \o parts
        health(force, toast) ==
            LET m == buildHealthMessage(force, checker)
            IN  Handled(update, m.text, IF checker = "nil" THEN "" ELSE toast, m.calls, checker)
        server(force, toast) ==
            IF Len(parts) < 3 THEN Handled(update, "", "Invalid server", << >>, checker)
            ELSE LET m == buildServerDetailMessage(parts[3], force, checker)
                 IN  Handled(update, m.text, IF checker = "nil" THEN "" ELSE toast,
                             m.calls, checker)
    IN  IF Len(parts) < 2 THEN Handled(update, "", "Invalid callback", << >>, checker)
        ELSE IF parts[2] = "health" THEN health(FALSE, "Health")
        ELSE IF parts[2] = "health_back" THEN health(FALSE, "Back")
        ELSE IF parts[2] = "overview"
             THEN Handled(update, "Infrastructure", "Infrastructure", << >>, checker)
        ELSE IF parts[2] = "refresh" THEN health(TRUE, "Refreshed")
        ELSE IF parts[2] = "server" THEN server(FALSE, "server")
        ELSE IF parts[2] = "server_refresh" THEN server(TRUE, "Refreshed")
        ELSE Handled(update, "", "Unknown action", << >>, checker)

\* The callback data of the keyboards, split at ":", and some that no
\* keyboard holds.
CallbackParts ==
    { << "infra" >>, << "infra", "health" >>, << "infra", "health_back" >>,
      << "infra", "overview" >>, << "infra", "refresh" >>, << "infra", "server" >>,
      << "infra", "server_refresh" >>, << "infra", "restart" >> }
    \cup { << "infra", a, id, "health" >> :
             a \in { "server", "server_refresh" }, id \in FrontServers }

\* New: the bot holds a checker exactly when the infrastructure section is
\* enabled and has clouds.
InitFront ==
    /\ Clouds = << Cloud("Prod", << Srv("a", "gw", FALSE) >>) >>
    /\ now = 0
    /\ cache = NoCache
    /\ cacheTime = ZeroTime
    /\ passes = 0
    /\ last = [op |-> "none"]
    /\ lastAll = << >>
    /\ dropped = {}
    /\ CheckIdle
    /\ CallIdle
    /\ StatIdle
    /\ JobIdle
    /\ TwinIdle
    /\ HookIdle
    /\ LateIdle
    /\ \E enabled \in BOOLEAN :
          front = [enabled |-> enabled,
                   checker |-> IF enabled THEN "set" ELSE "nil",
                   handled |-> << >>]

FrontFrame == UNCHANGED << vars, checkVars, callVars, statVars, jobVars, twin, hook, lateVars >>

\* The bot is running: it has handled fewer than MaxUpdates updates and no
\* handler has panicked.
Serving ==
    /\ "handled" \in DOMAIN front
    /\ Len(front.handled) < MaxUpdates
    /\ \A i \in DOMAIN front.handled : ~front.handled[i].panic

\* The /health command arrives.
HealthCommand ==
    /\ Serving
    /\ \E ping \in PingResults :
          front' = [front EXCEPT !.handled =
                       Append(@, handleHealth(front.enabled, front.checker, ping))]
    /\ FrontFrame

\* The /infra command arrives.
InfraCommand ==
    /\ Serving
    /\ front' = [front EXCEPT !.handled =
                    Append(@, handleInfra(front.enabled, front.checker))]
    /\ FrontFrame

\* A button of a keyboard is pressed: on a message this process sent, or on
\* one left in the chat by an earlier run of the bot.
InfraCallback ==
    /\ Serving
    /\ \E parts \in CallbackParts :
          front' = [front EXCEPT !.handled =
                       Append(@, handleInfraCallback(parts, front.checker))]
    /\ FrontFrame

NextFront == HealthCommand \/ InfraCommand \/ InfraCallback

\* The front end handling commands and callbacks, with and without a
\* checker.
SpecFront == InitFront /\ [][NextFront]_allVars

\* ---------------------------------------------------------------- C28
\* C28: a front end without a checker answers every update it handles with
\* a text or a toast, calls no method of the checker and does not panic.
C28_AbsentCheckerAnswered ==
    ("handled" \in DOMAIN front /\ front.checker = "nil") =>
        \A i \in DOMAIN front.handled :
            /\ front.handled[i].calls = << >>
            /\ ~front.handled[i].panic
            /\ front.handled[i].text # "" \/ front.handled[i].toast # ""

\* The same for the two commands alone.
C28_CommandsAnswered ==
    ("handled" \in DOMAIN front /\ front.checker = "nil") =>
        \A i \in DOMAIN front.handled :
            front.handled[i].update \in { << "/health" >>, << "/infra" >> } =>
                /\ front.handled[i].calls = << >>
                /\ ~front.handled[i].panic
                /\ front.handled[i].text = "Infrastructure monitoring is not configured"

\* The /health command handled without a checker, then the health button.
C28_CommandThenButton ==
    /\ "handled" \in DOMAIN front /\ front.checker = "nil"
    /\ Len(front.handled) = 2
    /\ front.handled[1].update = << "/health" >>
    /\ front.handled[2].update = << "callback", "infra", "health" >>
    /\ front.handled[2].panic

\* --------------------------------------------------- the webhook server
\* webhook.Server: POST /webhook/switch-gate, authenticated by the header
\* X-Webhook-Secret, forwards an event as a notification.

\* At most MaxRequests requests are served in one behaviour.
MaxRequests == 2

\* http.StatusOK, StatusBadRequest, StatusUnauthorized,
\* StatusMethodNotAllowed
StatusOK == 200
StatusBadRequest == 400
StatusUnauthorized == 401
StatusMethodNotAllowed == 405

\* webhooks.secret of the configuration: set, or left empty (the key is
\* optional, and "${WEBHOOK_SECRET}" expands to "" when the variable is
\* unset).
Secrets == { "s3cret", "" }

\* The X-Webhook-Secret header of a request: absent, or present with a
\* value.
NoHeader == [present |-> FALSE, value |-> ""]
Header(value) == [present |-> TRUE, value |-> value]
Headers == { NoHeader, Header("s3cret"), Header("wrong"), Header("") }

\* r.Header.Get: the value of the header, "" when the request has none.
HeaderGet(h) == IF h.present THEN h.value ELSE ""

\* A request body: text that is no JSON, JSON whose "event" is a number, or
\* a JSON object with the event name and source it carries.
Body(json, event, source) == [json |-> json, event |-> event, source |-> source]
Bodies ==
    { Body("syntax error", "", << >>), Body("event is a number", "", << >>),
      Body("object", "", << >>),
      Body("object", "mode.changed", << "v", "p", "s" >>),
      Body("object", "limit.reached", << "V", "p", "s" >>),
      Body("object", "mode_changed", << "v", "p", "s" >>) }

\* json.NewDecoder(r.Body).Decode(&event): the event, or an error.
Decode(body) ==
    IF body.json = "object"
    THEN [err |-> Nil, event |-> [Name |-> body.event, Source |-> body.source]]
    ELSE [err |-> Errorf(<< "json: ", body.json >>), event |-> [Name |-> "", Source |-> << >>]]

\* capitalize: the first byte in upper case when it is an ASCII lower-case
\* letter.
ToUpper == ("v" :> "V") @@ ("p" :> "P") @@ ("s" :> "S")
capitalize(str) ==
    IF Len(str) = 0 THEN str
    ELSE IF str[1] \in DOMAIN ToUpper THEN << ToUpper[str[1]] >> \o Tail(str)
    ELSE str

\* A formatNotification that knows mode.changed only.
formatNotificationModeOnly(event) ==
    IF event.Name = "mode.changed" THEN << "mode", capitalize(event.Source) >> ELSE << >>

\* formatNotification: the text for an event, "" for an unknown event type.
formatNotification(event) ==
    IF event.Name = "mode.changed" THEN << "mode", capitalize(event.Source) >>
    ELSE IF event.Name = "limit.reached" THEN << "limit", capitalize(event.Source) >>
    ELSE << >>

\* What the handler did for a request: the status code, whether the body was
\* decoded, and the texts handed to the notifier.
Served(req, status, decoded, sent) ==
    [req |-> req, status |-> status, decoded |-> decoded, sent |-> sent]

\* A handleSwitchGate that decodes the body before it looks at the secret.
handleSwitchGateDecodeFirst(secret, req) ==
    IF req.method # "POST" THEN Served(req, StatusMethodNotAllowed, FALSE, << >>)
    ELSE IF ~Decode(req.body).err.nil THEN Served(req, StatusBadRequest, TRUE, << >>)
    ELSE IF HeaderGet(req.header) # secret
    THEN Served(req, StatusUnauthorized, TRUE, << >>)
    ELSE LET text == formatNotification(Decode(req.body).event)
         IN  Served(req, StatusOK, TRUE, IF text # << >> THEN << text >> ELSE << >>)

\* Server.handleSwitchGate: the method, the secret, the body, the
\* notification; the notifier's error is logged and changes nothing.
handleSwitchGate(secret, req) ==
    IF req.method # "POST" THEN Served(req, StatusMethodNotAllowed, FALSE, << >>)
    ELSE IF HeaderGet(req.header) # secret
    THEN Served(req, StatusUnauthorized, FALSE, << >>)
    ELSE IF ~Decode(req.body).err.nil THEN Served(req, StatusBadRequest, TRUE, << >>)
    ELSE LET text == formatNotification(Decode(req.body).event)
         IN  Served(req, StatusOK, TRUE, IF text # << >> THEN << text >> ELSE << >>)

\* The requests: any header and body, and what the notifier will return if
\* it is called.
Requests(methods) ==
    [ method : methods, header : Headers, body : Bodies,
      notifier : { Nil, Errorf(<< "telegram: ", "Too Many Requests" >>) } ]

\* NewServer(listenAddr, secret, notifier)
InitHook ==
    /\ Clouds = << Cloud("Prod", << Srv("a", "gw", FALSE) >>) >>
    /\ now = 0
    /\ cache = NoCache
    /\ cacheTime = ZeroTime
    /\ passes = 0
    /\ last = [op |-> "none"]
    /\ lastAll = << >>
    /\ dropped = {}
    /\ CheckIdle
    /\ CallIdle
    /\ StatIdle
    /\ JobIdle
    /\ TwinIdle
    /\ FrontIdle
    /\ LateIdle
    /\ \E secret \in Secrets : hook = [secret |-> secret, served |-> << >>]

HookFrame == UNCHANGED << vars, checkVars, callVars, statVars, jobVars, twin, front, lateVars >>

\* A POST to /webhook/switch-gate is served.
PostSwitchGate ==
    /\ "served" \in DOMAIN hook
    /\ Len(hook.served) < MaxRequests
    /\ \E req \in Requests({ "POST" }) :
          hook' = [hook EXCEPT !.served = Append(@, handleSwitchGate(hook.secret, req))]
    /\ HookFrame

\* A request with another method is served.
OtherSwitchGate ==
    /\ "served" \in DOMAIN hook
    /\ Len(hook.served) < MaxRequests
    /\ \E req \in Requests({ "GET" }) :
          /\ req.header = NoHeader /\ req.body = Body("syntax error", "", << >>)
          /\ req.notifier = Nil
          /\ hook' = [hook EXCEPT !.served = Append(@, handleSwitchGate(hook.secret, req))]
    /\ HookFrame

NextHook == PostSwitchGate \/ OtherSwitchGate

\* The webhook server under each configured secret, serving requests.
SpecHook == InitHook /\ [][NextHook]_allVars

\* The requests served so far.
ServedRequests ==
    IF "served" \in DOMAIN hook THEN { hook.served[i] : i \in DOMAIN hook.served } ELSE {}

\* ---------------------------------------------------------------- C29
\* The request carries the configured secret in its header.
CarriesSecret(req) == req.header.present /\ req.header.value = hook.secret

\* C29: every request served that does not carry the configured secret in
\* an X-Webhook-Secret header, one without the header included, is
\* answered 401 (405 for a method other than POST) with its body not
\* decoded and nothing handed to the notifier.
C29_NoForwardWithoutSecret ==
    \A r \in ServedRequests :
        ~CarriesSecret(r.req) =>
            /\ r.status \in { StatusUnauthorized, StatusMethodNotAllowed }
            /\ r.req.method = "POST" => r.status = StatusUnauthorized
            /\ ~r.decoded
            /\ r.sent = << >>

\* The same under a configured secret that is not empty.
C29_SecretSetNoForward ==
    hook.secret # "" => C29_NoForwardWithoutSecret

\* ---------------------------------------------------------------- C30
\* The event types formatNotification knows.
KnownEvents == { "mode.changed", "limit.reached" }

\* C30: a POST whose header value differs from the configured secret gets
\* 401, whatever its body, and its body is not decoded; one whose header
\* value is the secret gets 400 when the body does not decode to an event
\* and 200 otherwise; with 200 the notifier is called once for mode.changed
\* and limit.reached and not at all for another event type, whether or not
\* the notifier returns an error; without 200 it is not called.
C30_StatusAndNotification ==
    \A r \in ServedRequests :
        r.req.method = "POST" =>
            LET matches == HeaderGet(r.req.header) = hook.secret
                valid == r.req.body.json = "object"
            IN  /\ ~matches => (r.status = StatusUnauthorized /\ ~r.decoded)
                /\ (matches /\ ~valid) => r.status = StatusBadRequest
                /\ (matches /\ valid) => r.status = StatusOK
                /\ Len(r.sent) = IF r.status = StatusOK /\ r.req.body.event \in KnownEvents
                                 THEN 1 ELSE 0

\* A limit.reached event with the right secret whose notification the
\* notifier fails to send: 200, one call; after a request with a wrong
\* secret and a body that does not decode: 401.
C30_Witness ==
    /\ "served" \in DOMAIN hook /\ Len(hook.served) = 2
    /\ hook.served[1].req.header = Header("wrong")
    /\ hook.served[1].req.body.json = "syntax error"
    /\ hook.served[1].status = StatusUnauthorized
    /\ hook.served[2].req.body.event = "limit.reached"
    /\ ~hook.served[2].req.notifier.nil
    /\ hook.served[2].status = StatusOK
    /\ hook.served[2].sent = << << "limit", << "V", "p", "s" >> >> >>

\* ================================================ the start of the program
\* main (part_000:30-52) loads the YAML file, then, when S3 is enabled and
\* its metadata could be loaded, calls Config.MergeS3Metadata; the checker is
\* constructed from the merged configuration and runs its passes over it.

\* The infrastructure.clouds sections the YAML file of a start may hold.
MergeYamlClouds ==
    YamlClouds \cup
    { << Cloud("Prod", << Srv("b", "web", FALSE) >>),
         Cloud("Lab", << Srv("d", "db", TRUE) >>) >> }

\* The cloud lists the S3 metadata of a start may hold (<< >>: S3 disabled,
\* not available, or without clouds).
MergeS3Clouds ==
    S3Clouds \cup
    { << Cloud("YC", << Srv("a", "gw-s3", TRUE) >>),
         Cloud("VPS", << Srv("v", "vps", FALSE) >>) >> }

InitMerge ==
    /\ \E yaml \in MergeYamlClouds, s3 \in MergeS3Clouds :
          /\ merge = [pc |-> "loaded", yaml |-> yaml, s3 |-> s3]
          /\ Clouds = yaml
    /\ now = 0
    /\ cache = NoCache
    /\ cacheTime = ZeroTime
    /\ passes = 0
    /\ last = [op |-> "NewChecker", id |-> "", n |-> 0, age |-> 0 - ZeroTime,
               fromCache |-> FALSE, fetched |-> << >>, ret |-> << >>, err |-> FALSE,
               at |-> 0, prevAll |-> << >>, afterInvalidate |-> FALSE,
               cacheBefore |-> NoCache, timeBefore |-> ZeroTime]
    /\ lastAll = << >>
    /\ dropped = {}
    /\ CheckIdle
    /\ CallIdle
    /\ StatIdle
    /\ JobIdle
    /\ TwinIdle
    /\ FrontIdle
    /\ HookIdle
    /\ ShownIdle
    /\ BotIdle
    /\ HeapIdle
    /\ CoolIdle

\* main: cfg.MergeS3Metadata(metadata) on the configuration config.Load
\* returned.
MergeStep ==
    /\ merge.pc = "loaded"
    /\ Clouds' = MergeS3Metadata(Clouds, merge.s3)
    /\ merge' = [merge EXCEPT !.pc = "merged"]
    /\ UNCHANGED << now, cache, cacheTime, passes, last, lastAll, dropped,
                    checkVars, callVars, statVars, jobVars, twin, front, hook,
                    shown, bot, heap, cool >>

\* telegram.New has constructed the checker from the merged configuration.
CheckerBuilt == merge.pc = "merged" /\ IsInfrastructureEnabled(Clouds)

MergedCheckAll == CheckerBuilt /\ CheckAll
MergedCheckAllForce == CheckerBuilt /\ CheckAllForce
MergedLoop == CheckerBuilt /\ refreshAllLoop
MergedReturn == CheckerBuilt /\ refreshAllReturn
MergedTick == CheckerBuilt /\ Tick

NextMerge ==
    MergeStep \/ MergedCheckAll \/ MergedCheckAllForce \/ MergedLoop \/ MergedReturn
    \/ MergedTick

SpecMerge == InitMerge /\ [][NextMerge]_allVars

\* The metadata of this start held clouds and has been merged.
S3Merged == merge.pc = "merged" /\ Len(merge.s3) > 0

\* How often a server with this ID occurs in a list of servers.
Occurrences(list, id) == Cardinality({ i \in DOMAIN list : list[i].ID = id })

\* C31: after S3 metadata with a non-empty cloud list has been merged, the
\* configuration's cloud list is exactly the S3 cloud list (the YAML clouds
\* are replaced), so the fleet holds no server ID twice and every refresh
\* pass fetches exactly the S3 servers, each one once.
C31_CloudsAreS3Clouds ==
    S3Merged =>
       /\ Clouds = merge.s3
       /\ UniqueIDs
       /\ ( last.op \in { "CheckAll", "CheckAllForce" } /\ ~last.fromCache =>
               /\ Len(last.fetched) = Len(Flatten(merge.s3))
               /\ \A i \in DOMAIN Flatten(merge.s3) :
                     Occurrences(last.fetched, Flatten(merge.s3)[i].server.ID) = 1 )

\* C31, what the code does: the merged list is the YAML list followed by the
\* S3 list, and a refresh pass fetches every server of both, in that order.
C31_S3CloudsAppended ==
    S3Merged =>
       /\ Clouds = merge.yaml \o merge.s3
       /\ ( last.op \in { "CheckAll", "CheckAllForce" } /\ ~last.fromCache =>
               last.fetched = ConfiguredServers )

\* C31: without YAML clouds the merged list is the S3 list.
C31_S3OnlyWhenYamlEmpty ==
    S3Merged /\ merge.yaml = << >> => Clouds = merge.s3 /\ UniqueIDs

\* A pass has run over a fleet merged from YAML clouds and S3 clouds that
\* declare the same server.
C31_DuplicateFetched ==
    /\ S3Merged
    /\ ~UniqueIDs
    /\ last.op = "CheckAllForce"
    /\ Occurrences(last.fetched, "a") = 2

\* =========================================== the front end on the checker
\* The handlers of the front end together with the checker they call: every
\* update is handled to its end, the calls its handler makes on the checker
\* included, before the next one is taken (Bot.Start); a refresh pass inside
\* a handler runs server by server.

\* The fleet of the panel: two servers, no reachability probes.
PanelClouds == << Cloud("Prod", << Srv("b", "web", FALSE), Srv("a", "gw", FALSE) >>) >>

\* New, with infrastructure enabled: the bot holds a checker whose cache is
\* empty.  front.handled holds the latest update only, front.pending the
\* update whose handler is waiting for a refresh pass to return.
InitPanel ==
    /\ Clouds = PanelClouds
    /\ IsInfrastructureEnabled(Clouds)
    /\ now = 0
    /\ cache = NoCache
    /\ cacheTime = ZeroTime
    /\ passes = 0
    /\ last = [op |-> "NewChecker", id |-> "", n |-> 0, age |-> 0 - ZeroTime,
               fromCache |-> FALSE, fetched |-> << >>, ret |-> << >>, err |-> FALSE,
               at |-> 0, prevAll |-> << >>, afterInvalidate |-> FALSE,
               cacheBefore |-> NoCache, timeBefore |-> ZeroTime]
    /\ lastAll = << >>
    /\ dropped = {}
    /\ CheckIdle
    /\ CallIdle
    /\ StatIdle
    /\ JobIdle
    /\ TwinIdle
    /\ HookIdle
    /\ LateIdle
    /\ front = [enabled |-> TRUE, checker |-> "set", handled |-> << >>, served |-> 0,
                pending |-> << >>]

\* The call on the checker that decides what an update shows: the last one
\* its handler makes, Ping aside.
CheckerCall(calls) ==
    IF calls = << >> \/ calls[Len(calls)] = "Ping" THEN "" ELSE calls[Len(calls)]

\* The calls of one handler, run on the checker.
Perform(calls, serverID) ==
    \/ /\ CheckerCall(calls) = ""
       /\ UNCHANGED << cache, cacheTime, passes, last, lastAll >>
    \/ /\ CheckerCall(calls) = "CheckAll"
       /\ CheckAllCachedCall \/ CheckAllRefreshCall
    \/ /\ CheckerCall(calls) = "CheckAllForce"
       /\ CheckAllForceCall
    \/ /\ CheckerCall(calls) = "CheckServer"
       /\ CheckServerCall(serverID)
    \/ /\ CheckerCall(calls) = "CheckServerForce"
       /\ CheckServerForceCall(serverID)

\* An update as its handler met it: what the handler does (h), Ping's
\* answer, whether the cache was valid, and the cache and its timestamp.
Asked(h, ping) ==
    [h |-> h, ping |-> ping, valid |-> isCacheValid(cache, cacheTime),
     cacheBefore |-> cache, timeBefore |-> cacheTime]

\* One update handled: what the handler did, Ping's answer, whether the
\* cache was valid when the update arrived, the servers fetched and whether
\* the result came from the cache, and the cache and its timestamp before
\* and after.
Shown(a) ==
    [update |-> a.h.update, text |-> a.h.text, toast |-> a.h.toast, calls |-> a.h.calls,
     panic |-> a.h.panic, ping |-> a.ping,
     valid |-> a.valid,
     fetched |-> IF CheckerCall(a.h.calls) = "" THEN << >> ELSE last'.fetched,
     fromCache |-> CheckerCall(a.h.calls) # "" /\ last'.fromCache,
     cacheBefore |-> a.cacheBefore, cacheAfter |-> cache',
     timeBefore |-> a.timeBefore, timeAfter |-> cacheTime']

PanelFrame ==
    UNCHANGED << Clouds, now, dropped, checkVars, callVars, statVars, jobVars,
                 twin, hook, lateVars >>

\* A handler runs: to its end when its call on the checker returns at once,
\* up to the beginning of refreshAll when the call runs a pass.
Handle(h, ping, serverID) ==
    /\ front.served < MaxUpdates
    /\ AtRest
    /\ Perform(h.calls, serverID)
    /\ front' = IF last'.op = "refreshAll"
                THEN [front EXCEPT !.pending = << Asked(h, ping) >>, !.served = @ + 1]
                ELSE [front EXCEPT !.handled = << Shown(Asked(h, ping)) >>,
                                   !.served = @ + 1]
    /\ PanelFrame

\* The pass of the waiting handler returns and the handler shows its result.
PanelReturn ==
    /\ front.pending # << >>
    /\ refreshAllReturnCall
    /\ front' = [front EXCEPT !.handled = << Shown(front.pending[1]) >>,
                              !.pending = << >>]
    /\ PanelFrame

\* The /health command arrives.
PanelHealth ==
    \E ping \in PingResults :
       Handle(handleHealth(front.enabled, front.checker, ping), ping, "")

\* The /infra command arrives.
PanelInfra == Handle(handleInfra(front.enabled, front.checker), Nil, "")

\* A button is pressed.
PanelCallback ==
    \E parts \in CallbackParts :
       Handle(handleInfraCallback(parts, front.checker), Nil,
              IF Len(parts) >= 3 THEN parts[3] ELSE "")

NextPanel ==
    PanelHealth \/ PanelInfra \/ PanelCallback \/ refreshAllLoop \/ PanelReturn \/ Tick

SpecPanel == InitPanel /\ [][NextPanel]_allVars

\* The latest update handled, and what it was.
Latest == front.handled[1]
Command(name) == Latest.update = << name >>
Button(action) ==
    /\ Latest.update[1] = "callback"
    /\ Len(Latest.update) >= 3
    /\ Latest.update[3] = action
\* The button names a server, which is configured.
OfServer == Len(Latest.update) >= 4 /\ GetServer(Latest.update[4]) # 0
ServerOf == AllServers[GetServer(Latest.update[4])].server
CacheKept ==
    Latest.cacheAfter = Latest.cacheBefore /\ Latest.timeAfter = Latest.timeBefore

\* C32: the /health command pings first; after a failed Ping it fetches no
\* server and leaves the cache as it was, after a successful one it fetches
\* the whole fleet whatever the cache holds.  The Refresh buttons fetch the
\* fleet, or the server, whatever the cache holds.  The Health button, the
\* Back button and a server click read the cache and fetch nothing when the
\* cache is valid, and fetch the fleet, or the server, when it is not.
C32_CacheBehaviourPerAction ==
    ("served" \in DOMAIN front /\ front.handled # << >>) =>
       /\ Command("/health") =>
             /\ Latest.calls[1] = "Ping"
             /\ ~Latest.ping.nil =>
                   Latest.calls = << "Ping" >> /\ Latest.fetched = << >> /\ CacheKept
             /\ Latest.ping.nil =>
                   /\ Latest.calls = << "Ping", "CheckAllForce" >>
                   /\ ~Latest.fromCache
                   /\ Latest.fetched = ConfiguredServers
       /\ Button("refresh") =>
             ~Latest.fromCache /\ Latest.fetched = ConfiguredServers
       /\ Button("server_refresh") /\ OfServer =>
             ~Latest.fromCache /\ Latest.fetched = << ServerOf >>
       /\ Button("health") \/ Button("health_back") =>
             IF Latest.valid
             THEN Latest.fromCache /\ Latest.fetched = << >> /\ CacheKept
             ELSE ~Latest.fromCache /\ Latest.fetched = ConfiguredServers
       /\ Button("server") /\ OfServer =>
             IF Latest.valid
             THEN Latest.fromCache /\ Latest.fetched = << >> /\ CacheKept
             ELSE ~Latest.fromCache /\ Latest.fetched = << ServerOf >>

\* A /health command met a failing Ping while the cache held a pass.
C32_Witness ==
    /\ "served" \in DOMAIN front /\ front.handled # << >>
    /\ Command("/health")
    /\ ~Latest.ping.nil
    /\ Latest.cacheBefore # NoCache
    /\ Latest.valid

\* The Back button was served from a valid cache, and a Refresh button
\* fetched the fleet although the cache was valid.
C32_BackFromCache ==
    /\ "served" \in DOMAIN front /\ front.handled # << >>
    /\ Button("health_back") /\ Latest.valid /\ Latest.fromCache
C32_RefreshOverValid ==
    /\ "served" \in DOMAIN front /\ front.handled # << >>
    /\ Button("refresh") /\ Latest.valid /\ Latest.fetched = ConfiguredServers
C32_ServerClickFetches ==
    /\ "served" \in DOMAIN front /\ front.handled # << >>
    /\ Button("server") /\ OfServer /\ ~Latest.valid /\ Latest.cacheBefore # NoCache
    /\ Latest.fetched = << ServerOf >>

\* ========================================================= the formatters
\* FormatProgressBar and ServerStatus.FormatUptime, as the server detail
\* message calls them (infra_handlers.go:169-183).

\* A float64: a number, held in tenths (percent 45.5 is Num(455)), an
\* infinity or NaN.  The metrics backend sends every one of them
\* (strconv.ParseFloat reads "NaN", "+Inf" and "-Inf").
Num(v) == [kind |-> "num", v |-> v]
NaN == [kind |-> "nan", v |-> 0]
PosInf == [kind |-> "+inf", v |-> 0]
NegInf == [kind |-> "-inf", v |-> 0]

\* a < b and a > b of Go for a float64 a and a number b given in tenths:
\* both are false when a is NaN.
FloatLess(a, b) == a.kind = "-inf" \/ (a.kind = "num" /\ a.v < b)
FloatGreater(a, b) == a.kind = "+inf" \/ (a.kind = "num" /\ a.v > b)
\* a <= b of Go for two float64.
FloatLE(a, b) ==
    /\ a.kind # "nan" /\ b.kind # "nan"
    /\ \/ a.kind = "-inf"
       \/ b.kind = "+inf"
       \/ a.kind = "num" /\ b.kind = "num" /\ a.v <= b.v

\* The builds of the program: the conversion of a NaN to int is
\* implementation-dependent in Go; the amd64 build gives the smallest int,
\* the arm64 build gives 0.
Builds == { "amd64", "arm64" }
\* The smallest int, as far as TLC's integers reach.
MinInt == -2147483647
IntOfNaN(build) == IF build = "amd64" THEN MinInt ELSE 0

\* The cells of a bar.
FilledCell == "filled"
EmptyCell == "empty"

\* What a formatter did: the text it returned, or a panic.
Text(text) == [panic |-> FALSE, text |-> text]
Panic == [panic |-> TRUE, text |-> << >>]

\* strings.Repeat: count copies of the cell; a negative count panics.
Repeat(cell, count) ==
    IF count < 0 THEN Panic ELSE Text([i \in 1..count |-> cell])

\* FormatProgressBar(percent, width): the clamps, then
\* filled := int(percent / 100 * float64(width)) and the two Repeats.  For
\* the numbers of Percents and the widths up to MaxWidth + 1 the float64
\* product truncates to the integer quotient below.
FormatProgressBar(percent, width, build) ==
    LET low == IF FloatLess(percent, 0) THEN Num(0) ELSE percent
        clamped == IF FloatGreater(low, 1000) THEN Num(1000) ELSE low
        filled == IF clamped.kind = "nan" THEN IntOfNaN(build)
                  ELSE (clamped.v * width) \div 1000
        head == Repeat(FilledCell, filled)
        tail == Repeat(EmptyCell, width - filled)
    IN  IF head.panic \/ tail.panic THEN Panic ELSE Text(head.text \o tail.text)

\* A FormatUptime that prints the hours without taking them modulo 24.
FormatUptimeAllHours(uptime) ==
    IF uptime = 0 THEN Text("unknown")
    ELSE LET days == (uptime \div 3600) \div 24
             hours == uptime \div 3600
             minutes == (uptime \div 60) % 60
         IN  IF days > 0
             THEN Text(ToString(days) \o "d " \o ToString(hours) \o "h "
                       \o ToString(minutes) \o "m")
             ELSE IF hours > 0
             THEN Text(ToString(hours) \o "h " \o ToString(minutes) \o "m")
             ELSE Text(ToString(minutes) \o "m")

\* ServerStatus.FormatUptime for an uptime of whole seconds:
\* days := int(Hours() / 24), hours := int(Hours()) % 24,
\* minutes := int(Minutes()) % 60, and the three Sprintf formats.
FormatUptime(uptime) ==
    IF uptime = 0 THEN Text("unknown")
    ELSE LET days == (uptime \div 3600) \div 24
             hours == (uptime \div 3600) % 24
             minutes == (uptime \div 60) % 60
         IN  IF days > 0
             THEN Text(ToString(days) \o "d " \o ToString(hours) \o "h "
                       \o ToString(minutes) \o "m")
             ELSE IF hours > 0
             THEN Text(ToString(hours) \o "h " \o ToString(minutes) \o "m")
             ELSE Text(ToString(minutes) \o "m")

\* The widths of the bars rendered: 0..MaxWidth (the detail message asks
\* for 10).
MaxWidth == 10

\* The percents rendered.
Percents ==
    { Num(v) : v \in { -1000, -5, 0, 5, 95, 100, 105, 250, 455, 500, 895, 900,
                       995, 1000, 1005, 1500 } }
    \cup { NaN, PosInf, NegInf }

\* The longest uptime rendered, in days, and the uptimes rendered, in
\* seconds.
MaxDays == 15
Uptimes ==
    { 0, 1, 59, 60, 61, 119, 3599, 3600, 3659, 3660, 7325, 86399, 86400, 86459,
      86460, 90000, 90061, 172799, 1234567, 1295999 }

\* Nothing has been rendered yet.
Pending == [pending |-> TRUE]

InitFormat ==
    /\ Clouds = << Cloud("Prod", << Srv("a", "gw", FALSE) >>) >>
    /\ now = 0
    /\ cache = NoCache
    /\ cacheTime = ZeroTime
    /\ passes = 0
    /\ last = [op |-> "none"]
    /\ lastAll = << >>
    /\ dropped = {}
    /\ CheckIdle
    /\ CallIdle
    /\ StatIdle
    /\ JobIdle
    /\ TwinIdle
    /\ FrontIdle
    /\ HookIdle
    /\ MergeIdle
    /\ BotIdle
    /\ HeapIdle
    /\ CoolIdle
    /\ \/ \E percent \in Percents, width \in 0..MaxWidth, build \in Builds :
             shown = [fn |-> "FormatProgressBar", percent |-> percent,
                      width |-> width, build |-> build, out |-> Pending]
       \/ \E uptime \in Uptimes :
             shown = [fn |-> "FormatUptime", uptime |-> uptime, out |-> Pending]

FormatFrame ==
    UNCHANGED << vars, checkVars, callVars, statVars, jobVars, twin, front, hook,
                 merge, bot, heap, cool >>

\* The detail message renders a bar.
RenderBar ==
    /\ shown.fn = "FormatProgressBar"
    /\ shown.out = Pending
    /\ shown' = [shown EXCEPT
                    !.out = FormatProgressBar(shown.percent, shown.width, shown.build)]
    /\ FormatFrame

\* The detail message renders the uptime.
RenderUptime ==
    /\ shown.fn = "FormatUptime"
    /\ shown.out = Pending
    /\ shown' = [shown EXCEPT !.out = FormatUptime(shown.uptime)]
    /\ FormatFrame

NextFormat == RenderBar \/ RenderUptime

SpecFormat == InitFormat /\ [][NextFormat]_allVars

\* The formatter named has returned or panicked.
Rendered(fn) == "fn" \in DOMAIN shown /\ shown.fn = fn /\ shown.out # Pending

\* The number of filled cells of a bar.
FilledCells(text) == Cardinality({ i \in DOMAIN text : text[i] = FilledCell })

\* A bar of the width asked for: filled cells first, empty cells after.
BarOf(text, width) ==
    /\ Len(text) = width
    /\ \A i \in DOMAIN text :
          text[i] = IF i <= FilledCells(text) THEN FilledCell ELSE EmptyCell

\* The bar of a lower percent, same width, has no more filled cells.
LowerPercentsFillLess ==
    \A lower \in Percents :
       FloatLE(lower, shown.percent) =>
          LET bar == FormatProgressBar(lower, shown.width, shown.build) IN
          ~bar.panic /\ FilledCells(bar.text) <= FilledCells(shown.out.text)

\* C33: FormatProgressBar(percent, width) with width >= 0 returns, for every
\* percent, a bar of exactly width cells; the number of filled cells does not
\* decrease when percent grows, is 0 for percent <= 0 and width for
\* percent >= 100.
C33_BarWidthMonotonicClamped ==
    Rendered("FormatProgressBar") =>
       /\ ~shown.out.panic
       /\ BarOf(shown.out.text, shown.width)
       /\ LowerPercentsFillLess
       /\ FloatLE(shown.percent, Num(0)) => FilledCells(shown.out.text) = 0
       /\ FloatLE(Num(1000), shown.percent) =>
             FilledCells(shown.out.text) = shown.width

\* C33 for every percent that is not NaN, the infinities included.
C33_NumbersClamped ==
    Rendered("FormatProgressBar") /\ shown.percent # NaN =>
       /\ ~shown.out.panic
       /\ BarOf(shown.out.text, shown.width)
       /\ LowerPercentsFillLess
       /\ FloatLE(shown.percent, Num(0)) => FilledCells(shown.out.text) = 0
       /\ FloatLE(Num(1000), shown.percent) =>
             FilledCells(shown.out.text) = shown.width

\* C33: a NaN percent panics in the amd64 build and gives an empty bar in
\* the arm64 build.
C33_NaNByBuild ==
    Rendered("FormatProgressBar") /\ shown.percent = NaN =>
       IF shown.build = "amd64" THEN shown.out.panic
       ELSE ~shown.out.panic /\ BarOf(shown.out.text, shown.width)
            /\ FilledCells(shown.out.text) = 0

\* A bar of 10 cells was rendered for 45.5 percent: four filled cells.
C33_HalfBar ==
    /\ Rendered("FormatProgressBar")
    /\ shown.percent = Num(455) /\ shown.width = MaxWidth
    /\ FilledCells(shown.out.text) = 4

\* The text FormatUptime prints for d days, h hours and m minutes.
UptimeText(d, h, m) ==
    IF d > 0
    THEN ToString(d) \o "d " \o ToString(h) \o "h " \o ToString(m) \o "m"
    ELSE IF h > 0 THEN ToString(h) \o "h " \o ToString(m) \o "m"
    ELSE ToString(m) \o "m"

\* C34: FormatUptime prints "unknown" for an uptime of zero and, for a
\* positive uptime of s whole seconds, the d days, h hours (0..23) and m
\* minutes (0..59) with d*86400 + h*3600 + m*60 <= s < that + 60, as
\* "Dd Hh Mm" when d > 0, "Hh Mm" when d = 0 and h > 0, "Mm" otherwise;
\* 1,234,567 s prints "14d 6h 56m".
C34_UptimeDecomposition ==
    Rendered("FormatUptime") =>
       /\ ~shown.out.panic
       /\ shown.uptime = 0 => shown.out.text = "unknown"
       /\ shown.uptime = 1234567 => shown.out.text = "14d 6h 56m"
       /\ shown.uptime > 0 =>
             \E d \in 0..MaxDays, h \in 0..23, m \in 0..59 :
                /\ d * 86400 + h * 3600 + m * 60 <= shown.uptime
                /\ shown.uptime < d * 86400 + h * 3600 + m * 60 + 60
                /\ shown.out.text = UptimeText(d, h, m)

\* The uptime of scenario A has been rendered.
C34_Witness ==
    /\ Rendered("FormatUptime")
    /\ shown.uptime = 1234567
    /\ shown.out.text = "14d 6h 56m"

\* An uptime of one day and a minute prints its zero hours.
C34_ZeroHoursPrinted ==
    /\ Rendered("FormatUptime")
    /\ shown.uptime = 86460
    /\ shown.out.text = "1d 0h 1m"

\* ======================================================== the update loop
\* Bot.Start: the loop over the updates of the long poll, the allow-list
\* check and the two routers, handleCommand and handleCallback.

\* The chats updates come from.
Chats == { 101, 102, 103 }

\* telegram.allowed_chat_ids: Config.Validate refuses an empty list.
AllowLists == { << 101 >>, << 101, 102 >>, << 102, 102 >> }

\* An IsAllowedChat that lets every chat in.
IsAllowedChatAny(allowed, chatID) == chatID \in Chats

\* Config.IsAllowedChat
IsAllowedChat(allowed, chatID) == \E i \in DOMAIN allowed : allowed[i] = chatID

\* An update: a callback query with its data split at ":", a message with
\* its text (a command when it starts with "/"), or an update of another
\* kind, which has neither.
Update(kind, chat, parts) == [kind |-> kind, chat |-> chat, parts |-> parts]
Updates ==
    { Update("callback", chat, parts) :
         chat \in Chats,
         parts \in { << "edge", "full" >>, << "upstream", "vps" >>,
                     << "action", "refresh" >>, << "noop" >>, << "zzz", "1" >> } }
    \cup
    { Update("message", chat, parts) :
         chat \in Chats,
         parts \in { << "/start" >>, << "/status" >>, << "/edge_full" >>, << "/ip" >>,
                     << "/foo" >>, << "hello" >> } }
    \cup
    { Update("edited_message", chat, << "/ip" >>) : chat \in Chats }

\* What a router did: the handler it ran and the calls on the edge gateway
\* that handler starts with.
Routed(router, handler, remote) ==
    [router |-> router, handler |-> handler, remote |-> remote]
NotRouted == Routed("", "", << >>)

\* Bot.handleCommand(msg), for the commands of Updates.
handleCommand(parts) ==
    LET cmd == parts[1] IN
    IF cmd = "/start" THEN Routed("handleCommand", "handleStart", << >>)
    ELSE IF cmd = "/status"
    THEN Routed("handleCommand", "handleStatus", << "GetStatus", "GetExternalIP" >>)
    ELSE IF cmd = "/edge_full"
    THEN Routed("handleCommand", "handleEdge", << "SetMode" >>)
    ELSE IF cmd = "/ip" THEN Routed("handleCommand", "handleIP", << "GetExternalIP" >>)
    ELSE Routed("handleCommand", "reply", << >>)

\* Bot.handleCallback(callback): cooling is what checkCooldown returned.
handleCallback(parts, cooling) ==
    IF cooling THEN Routed("handleCallback", "answerCallback", << >>)
    ELSE IF Len(parts) < 2 THEN Routed("handleCallback", "answerCallback", << >>)
    ELSE IF parts[1] = "edge"
    THEN Routed("handleCallback", "handleEdgeCallback", << "SetMode" >>)
    ELSE IF parts[1] = "upstream"
    THEN Routed("handleCallback", "handleUpstreamCallback", << "SetUpstream" >>)
    ELSE IF parts[1] = "action"
    THEN Routed("handleCallback", "handleActionCallback", << "GetStatus", "GetExternalIP" >>)
    ELSE Routed("handleCallback", "answerCallback", << >>)

\* Message.IsCommand
IsCommand(parts) == parts[1] \notin { "hello" }

\* One turn of the loop of Bot.Start.
Dispatch(allowed, update, cooling) ==
    IF update.kind = "callback"
    THEN IF ~IsAllowedChat(allowed, update.chat) THEN NotRouted
         ELSE handleCallback(update.parts, cooling)
    ELSE IF update.kind # "message" THEN NotRouted
    ELSE IF ~IsAllowedChat(allowed, update.chat) THEN NotRouted
    ELSE IF IsCommand(update.parts) THEN handleCommand(update.parts)
    ELSE NotRouted

InitGate ==
    /\ Clouds = << Cloud("Prod", << Srv("a", "gw", FALSE) >>) >>
    /\ now = 0
    /\ cache = NoCache
    /\ cacheTime = ZeroTime
    /\ passes = 0
    /\ last = [op |-> "none"]
    /\ lastAll = << >>
    /\ dropped = {}
    /\ CheckIdle
    /\ CallIdle
    /\ StatIdle
    /\ JobIdle
    /\ TwinIdle
    /\ FrontIdle
    /\ HookIdle
    /\ MergeIdle
    /\ ShownIdle
    /\ HeapIdle
    /\ CoolIdle
    /\ \E allowed \in AllowLists :
          bot = [AllowedChatIDs |-> allowed, received |-> 0, latest |-> << >>]

GateFrame ==
    UNCHANGED << vars, checkVars, callVars, statVars, jobVars, twin, front, hook,
                 merge, shown, heap, cool >>

\* The long poll delivers an update and the loop takes its turn with it.
Receive ==
    /\ bot.received < MaxUpdates
    /\ \E update \in Updates, cooling \in BOOLEAN :
          bot' = [bot EXCEPT
                     !.received = @ + 1,
                     !.latest = << [update |-> update,
                                    did |-> Dispatch(bot.AllowedChatIDs, update, cooling)] >>]
    /\ GateFrame

NextGate == Receive

SpecGate == InitGate /\ [][NextGate]_allVars

\* The loop has taken a turn; the update of that turn and what was done.
Received == "latest" \in DOMAIN bot /\ bot.latest # << >>
LatestUpdate == bot.latest[1].update
LatestDid == bot.latest[1].did
Listed(chat) == \E i \in DOMAIN bot.AllowedChatIDs : bot.AllowedChatIDs[i] = chat

\* C35: for an update whose chat is not in the allow-list the loop runs no
\* router and no handler, and no call on a remote host is started.
C35_UnlistedChatDropped ==
    Received /\ ~Listed(LatestUpdate.chat) =>
       /\ LatestDid.router = ""
       /\ LatestDid.handler = ""
       /\ LatestDid.remote = << >>

\* After an earlier update, a chat that is not listed pressed the button
\* that changes the mode.
C35_Witness ==
    /\ Received
    /\ bot.received >= 2
    /\ ~Listed(LatestUpdate.chat)
    /\ LatestUpdate.kind = "callback"
    /\ LatestUpdate.parts = << "edge", "full" >>

\* A listed chat's button reached its handler.
C35_ListedServed ==
    /\ Received
    /\ Listed(LatestUpdate.chat)
    /\ LatestDid.handler = "handleEdgeCallback"
    /\ LatestDid.remote = << "SetMode" >>

\* ==================================================== the snapshot objects
\* checkServer allocates a ServerStatus, fills it field by field and returns
\* the pointer; refreshAll puts the pointer into c.cache and into its result
\* list.  The objects are modelled by address, so that a change made through
\* one pointer shows through every other one.

\* The fleet of these checks: "a" is read from the metrics backend only, "b"
\* has a probe target as well.
HeapServers == << Srv("a", "gw", FALSE), Srv("b", "web", TRUE) >>

\* What a check of a server may meet: its up flag and its probe's result.
HeapAnswers(server) ==
    IF server.ExternalCheck
    THEN { [up |-> TRUE, probe |-> p] : p \in BOOLEAN }
    ELSE { [up |-> u, probe |-> FALSE] : u \in BOOLEAN }

\* status := &ServerStatus{ID: ..., Name: ...}: every other field has Go's
\* zero value.  made is the number of the call that allocated the object;
\* returned tells whether checkServer has returned it.
NewStatus(server, made) ==
    [ID |-> server.ID, Name |-> server.Name, IsUp |-> FALSE, CPU |-> 0, Uptime |-> 0,
     Services |-> << >>, ExternalAccess |-> FALSE, made |-> made, returned |-> FALSE]

\* An allocation that reuses the object the cache holds for the server.
allocateInPlace(h, server) ==
    IF server.ID \in DOMAIN h.cache THEN h.cache[server.ID] ELSE Len(h.objects) + 1

\* The address of the object checkServer fills: a new one on every call.
allocate(h, server) == Len(h.objects) + 1

\* No call is under way.
Resting(calls) == [pc |-> "idle", calls |-> calls]

InitHeap ==
    /\ Clouds = << Cloud("Prod", HeapServers) >>
    /\ now = 0
    /\ cache = NoCache
    /\ cacheTime = ZeroTime
    /\ passes = 0
    /\ last = [op |-> "none"]
    /\ lastAll = << >>
    /\ dropped = {}
    /\ CheckIdle
    /\ CallIdle
    /\ StatIdle
    /\ JobIdle
    /\ TwinIdle
    /\ FrontIdle
    /\ HookIdle
    /\ MergeIdle
    /\ ShownIdle
    /\ BotIdle
    /\ CoolIdle
    /\ heap = [objects |-> << >>, cache |-> NoCache, held |-> {}, stored |-> {},
               run |-> Resting(0)]

HeapFrame ==
    UNCHANGED << vars, checkVars, callVars, statVars, jobVars, twin, front, hook,
                 merge, shown, bot, cool >>

HeapAt(pc) == "run" \in DOMAIN heap /\ heap.run.pc = pc
Current == heap.objects[heap.run.cur]
CurrentServer == HeapServers[heap.run.i]
Assign(field, value) ==
    [heap.objects EXCEPT ![heap.run.cur] = [@ EXCEPT ![field] = value]]

\* refreshAll begins its loop (CheckAll on an invalid cache, CheckAllForce).
BeginRefreshAll ==
    /\ HeapAt("idle")
    /\ heap.run.calls <= MaxPasses
    /\ heap' = [heap EXCEPT !.run = [pc |-> "allocate", calls |-> heap.run.calls + 1,
                                     store |-> TRUE, i |-> 1, list |-> << >>]]
    /\ HeapFrame

\* checkServerForce begins for one server (CheckServerForce, CheckServer on
\* an invalid cache).
BeginCheckServerForce ==
    /\ HeapAt("idle")
    /\ heap.run.calls <= MaxPasses
    /\ \E i \in DOMAIN HeapServers :
          heap' = [heap EXCEPT !.run = [pc |-> "allocate", calls |-> heap.run.calls + 1,
                                        store |-> FALSE, i |-> i, list |-> << >>]]
    /\ HeapFrame

\* checkServer: status := &ServerStatus{...}
Allocate ==
    /\ HeapAt("allocate")
    /\ LET addr == allocate(heap, CurrentServer)
           fresh == NewStatus(CurrentServer, heap.run.calls)
       IN  \E ans \in HeapAnswers(CurrentServer) :
              heap' = [heap EXCEPT
                          !.objects = IF addr > Len(@) THEN Append(@, fresh)
                                      ELSE [@ EXCEPT ![addr] = fresh],
                          !.run = [cur |-> addr, ans |-> ans] @@ [@ EXCEPT !.pc = "up"]]
    /\ HeapFrame

\* checkPrometheusServer: status.IsUp = ...
AssignUp ==
    /\ HeapAt("up")
    /\ heap' = [heap EXCEPT !.objects = Assign("IsUp", heap.run.ans.up),
                            !.run.pc = IF heap.run.ans.up THEN "resources" ELSE "services"]
    /\ HeapFrame

\* checkPrometheusServer: status.CPU = cpu, ..., status.Uptime = uptime
AssignResources ==
    /\ HeapAt("resources")
    /\ heap' = [heap EXCEPT
                   !.objects = [@ EXCEPT ![heap.run.cur] =
                                   [@ EXCEPT !.CPU = 10 * heap.run.calls,
                                             !.Uptime = 100 + heap.run.calls]],
                   !.run.pc = "services"]
    /\ HeapFrame

\* checkPrometheusServer: status.Services = append(status.Services, ...)
AssignServices ==
    /\ HeapAt("services")
    /\ heap' = [heap EXCEPT
                   !.objects = Assign("Services",
                                      << Service("nginx", Current.IsUp, "") >>),
                   !.run.pc = "probe"]
    /\ HeapFrame

\* checkServer: status.ExternalAccess = ...
AssignProbe ==
    /\ HeapAt("probe")
    /\ heap' = [heap EXCEPT
                   !.objects = Assign("ExternalAccess",
                                      IF CurrentServer.ExternalCheck
                                      THEN heap.run.ans.probe ELSE Current.IsUp),
                   !.run.pc = "return"]
    /\ HeapFrame

\* checkServer: return status
ReturnStatus ==
    /\ HeapAt("return")
    /\ heap' = [heap EXCEPT !.objects = Assign("returned", TRUE),
                            !.run.pc = IF heap.run.store THEN "store" ELSE "done",
                            !.run.list = Append(@, heap.run.cur)]
    /\ HeapFrame

\* refreshAll: c.cache[server.ID] = status, and the next server
StoreStatus ==
    /\ HeapAt("store")
    /\ heap' = [heap EXCEPT
                   !.cache = store(@, CurrentServer.ID, heap.run.cur),
                   !.stored = @ \cup { heap.run.cur },
                   !.run = IF heap.run.i < Len(HeapServers)
                           THEN [@ EXCEPT !.pc = "allocate", !.i = @ + 1]
                           ELSE [@ EXCEPT !.pc = "done"]]
    /\ HeapFrame

\* The call returns its pointers to its caller.
ReturnPointers ==
    /\ HeapAt("done")
    /\ heap' = [heap EXCEPT
                   !.held = @ \cup { heap.run.list[k] : k \in DOMAIN heap.run.list },
                   !.run = Resting(heap.run.calls)]
    /\ HeapFrame

\* getCachedStatuses, or CheckServer on a valid cache: the pointers of the
\* cache are returned.
ReturnCached ==
    /\ HeapAt("idle")
    /\ heap.cache # NoCache
    /\ heap.run.calls <= MaxPasses
    /\ heap' = [heap EXCEPT
                   !.held = @ \cup { heap.cache[id] : id \in DOMAIN heap.cache },
                   !.run = Resting(heap.run.calls + 1)]
    /\ HeapFrame

NextHeap ==
    \/ BeginRefreshAll
    \/ BeginCheckServerForce
    \/ Allocate
    \/ AssignUp
    \/ AssignResources
    \/ AssignServices
    \/ AssignProbe
    \/ ReturnStatus
    \/ StoreStatus
    \/ ReturnPointers
    \/ ReturnCached

SpecHeap == InitHeap /\ [][NextHeap]_allVars

\* The addresses a reader can reach: through the cache, or through a pointer
\* a call returned.
Visible(h) == { h.cache[id] : id \in DOMAIN h.cache } \cup h.held

\* Every object a reader can reach has been returned by checkServer, that
\* is, has all its fields assigned.
VisibleComplete ==
    "objects" \in DOMAIN heap =>
       \A addr \in Visible(heap) : heap.objects[addr].returned

\* A step changes no object that a reader can reach or that was in the
\* cache before, and a cache write puts in an object no reader could reach
\* before.
VisibleNeverModified ==
    "objects" \in DOMAIN heap =>
       /\ \A addr \in Visible(heap) \cup heap.stored :
             heap'.objects[addr] = heap.objects[addr]
       /\ \A id \in DOMAIN heap'.cache :
             (id \notin DOMAIN heap.cache \/ heap'.cache[id] # heap.cache[id]) =>
                /\ heap'.cache[id] \notin Visible(heap) \cup heap.stored
                /\ heap'.objects[heap'.cache[id]].returned

\* C36: a snapshot is in the cache, or in a caller's hands, only with all
\* its fields assigned; no snapshot is modified after it was stored or
\* returned; and a refresh replaces the entry of an ID by a new snapshot.
C36_SnapshotsWholeAndFrozen == []VisibleComplete /\ [][VisibleNeverModified]_allVars

\* A pass is filling a new snapshot for a server while the cache holds the
\* snapshot of an earlier pass for it, which differs and which a caller
\* holds.
C36_Witness ==
    /\ HeapAt("probe")
    /\ CurrentServer.ID \in DOMAIN heap.cache
    /\ heap.cache[CurrentServer.ID] \in heap.held
    /\ heap.cache[CurrentServer.ID] # heap.run.cur
    /\ heap.objects[heap.cache[CurrentServer.ID]].IsUp # Current.IsUp
    /\ heap.run.store

\* ================================================ the services of a server
\* checkPrometheusServer on servers that declare several services, with and
\* without a metrics job, each job with its own answer.

\* The metrics jobs of these servers.
ServiceJobs == { "nginx", "api" }

\* ServerConfig.Services of these servers.
DeclaredServices ==
    { << >>,
      << ServiceConfig("nginx", "nginx") >>,
      << ServiceConfig("nginx", "nginx"), ServiceConfig("cron", "") >>,
      << ServiceConfig("cron", ""), ServiceConfig("api", "api"),
         ServiceConfig("nginx", "nginx") >>,
      << ServiceConfig("cron", ""), ServiceConfig("backup", "") >> }

\* A call on the metrics client (GetMemoryBytes and GetDiskBytes send two
\* requests each): its kind and, for the up query of a job, the job.
Query(kind, job) == [kind |-> kind, job |-> job]
ResourceQueries ==
    << Query("cpu", ""), Query("memory", ""), Query("memoryBytes", ""),
       Query("disk", ""), Query("diskBytes", ""), Query("uptime", "") >>

RECURSIVE jobQueries(_)
\* The IsServiceUp calls of the services loop, in order.
jobQueries(services) ==
    IF services = << >> THEN << >>
    ELSE (IF Head(services).Job # "" THEN << Query("serviceUp", Head(services).Job) >>
          ELSE << >>)
         \o jobQueries(Tail(services))

\* The queries checkPrometheusServer sends, in order: IsUp (the regex form
\* when the exact form fails), the resource queries when the server is up,
\* then one IsServiceUp per service with a job.
promQueries(server, p) ==
    LET up == IsUp(p.upExact, p.upRegex)
        isUp == IF up.ok THEN up.value ELSE FALSE
    IN  << Query("upExact", "") >>
        \o (IF p.upExact.ok THEN << >> ELSE << Query("upRegex", "") >>)
        \o (IF isUp THEN ResourceQueries ELSE << >>)
        \o jobQueries(server.Services)

\* The configurations: servers read from the metrics backend, no probe.
ServiceCheckConfigs ==
    { [Upstreams |-> u, Clients |-> {}, Server |-> ServerConfig(NoTarget, l)] :
         u \in { m \in UpstreamMaps : ~IsSwitchGateServer(m, ServerIP) },
         l \in DeclaredServices }

\* The answers: every up answer, one resource query failing or not, and an
\* answer per job.
ServiceCheckAnswers ==
    { [ prom |-> [ upExact |-> e, upRegex |-> r, cpu |-> c, memory |-> Ok(40),
                   memoryBytes |-> Ok([used |-> 2097152, total |-> 4194304]),
                   disk |-> Ok(30),
                   diskBytes |-> Ok([used |-> 3145728, total |-> 10485760]),
                   uptime |-> Ok(3600), serviceUp |-> j ],
        agent |-> AgentSilent,
        probe |-> [dial |-> Refused, http |-> Refused] ] :
        e \in UpAnswers, r \in UpAnswers, c \in { NoAnswer, Ok(50) },
        j \in [ServiceJobs -> UpAnswers] }

InitServices ==
    /\ conf \in ServiceCheckConfigs
    /\ resp \in { a \in ServiceCheckAnswers : a.prom.upExact.ok => a.prom.upRegex = NoAnswer }
    /\ snap = NoSnap
    /\ level = ""
    /\ picks = << >>
    /\ probed = NoProbe
    /\ CheckerIdle
    /\ CallIdle
    /\ ExtIdle

\* Checks of servers with several services, each followed by its
\* classification.
SpecServices == InitServices /\ [][NextCheck]_allVars

\* The snapshot in snap was assembled on the metrics path.
OnMetricsPath == picks # << >> /\ snap # NoSnap /\ LastPick.source = "prometheus"

\* The position of a query in a list of queries, 0 when it is not there.
Sent(queries, q) == \E i \in DOMAIN queries : queries[i] = q

\* C37: on the metrics path the snapshot holds one entry per declared
\* service, in declaration order; a service with a job is up exactly when
\* the up query of that job succeeded with value 1, and carries the error
\* text of a failed query; a service without a job has the server's up flag;
\* and the resource queries are sent exactly when the server is up.
C37_ServicesFromJobsOrServer ==
    OnMetricsPath =>
       LET declared == conf.Server.Services
           queries == promQueries(conf.Server, resp.prom)
       IN
       /\ Len(snap.Services) = Len(declared)
       /\ \A i \in DOMAIN declared :
             LET entry == snap.Services[i]
                 job == declared[i].Job
             IN
             /\ entry.Name = declared[i].Name
             /\ job # "" =>
                   LET answer == resp.prom.serviceUp[job] IN
                   /\ entry.IsUp <=> (answer.ok /\ answer.value = 1)
                   /\ entry.Error = IF answer.ok THEN "" ELSE answer.err
                   /\ Sent(queries, Query("serviceUp", job))
             /\ job = "" => entry.IsUp = snap.IsUp /\ entry.Error = ""
       /\ \A k \in DOMAIN ResourceQueries :
             Sent(queries, ResourceQueries[k]) <=> snap.IsUp

\* A server that is down declares a service without a job and two with
\* jobs, one of which is up and one of which could not be queried.
C37_Witness ==
    /\ OnMetricsPath
    /\ ~snap.IsUp
    /\ Len(snap.Services) = 3
    /\ ~snap.Services[1].IsUp
    /\ snap.Services[2].Error # ""
    /\ snap.Services[3].IsUp

\* A server that is up has a service whose job is down.
C37_JobDownServerUp ==
    /\ OnMetricsPath
    /\ snap.IsUp
    /\ Len(snap.Services) = 2
    /\ ~snap.Services[1].IsUp
    /\ snap.Services[2].IsUp

\* A CheckAll() served from the cache while another caller's pass is under
\* way has returned a list with snapshots of two passes: the state C5
\* excludes, seen by a caller.
C5_MixedListReturned ==
    \E p \in DOMAIN callers :
       /\ callers[p].fromCache /\ callers[p].pc = "done"
       /\ ~fault
       /\ \E i, j \in DOMAIN callers[p].statuses :
             callers[p].statuses[i].pass # callers[p].statuses[j].pass

\* ---------------------------------------------------------------- C38
\* Every configured server ID has an entry in the map.
CacheComplete(c) == \A i \in DOMAIN AllServers : AllServers[i].server.ID \in DOMAIN c

\* C38: whenever the cache is valid (not empty and younger than the TTL) it
\* holds an entry for every configured server ID, and a CheckAll() served
\* from the cache returns one snapshot per configured server, under any
\* interleaving of the calls, an InvalidateCache() during a refresh pass
\* included.
C38_ValidCacheComplete ==
    /\ isCacheValid(cache, cacheTime) => CacheComplete(cache)
    /\ \A p \in DOMAIN callers :
          (callers[p].fromCache /\ callers[p].pc = "done")
              => OnePerServer(callers[p].statuses)

\* The part of C38 that holds: between calls that run one after the other,
\* a valid cache holds every configured ID.
C38_CompleteBetweenCalls ==
    (callers = << >> /\ isCacheValid(cache, cacheTime)) => CacheComplete(cache)

\* Calls one after the other have left a valid cache of a fleet of two
\* servers after a second refresh pass.
C38_RefilledBetweenCalls ==
    /\ callers = << >>
    /\ isCacheValid(cache, cacheTime) /\ CacheComplete(cache)
    /\ passes >= 2
    /\ Len(AllServers) >= 2

\* An InvalidateCache() between the two map assignments of a refresh pass
\* has left a valid cache without the first server's entry, and no access
\* overlapped another.
C38_ValidButIncomplete ==
    /\ ~fault
    /\ isCacheValid(cache, cacheTime)
    /\ ~CacheComplete(cache)
    /\ \A p \in DOMAIN callers : callers[p].pc = "idle"

\* ================================================= the callback cooldown
\* Bot.checkCooldown and the head of Bot.handleCallback, with the goroutines
\* inside them, the mutex cooldownMu and a clock of their own.

\* time.Second, in ticks of the cooldown clock (half a second each).
Second == 2

\* The clock stops at MaxClock ticks; MaxCallbacks callbacks arrive.
MaxClock == 4
MaxCallbacks == 3

\* The chats that press buttons, and the data of the buttons.
CoolChats == { 101, 102 }
CoolData == { << "edge", "full" >> }

\* A comparison under which no chat is ever in cooldown.
inCooldownNever(exists, lastTime, clock) == FALSE

\* The condition of checkCooldown: exists && time.Since(lastTime) < time.Second
inCooldown(exists, lastTime, clock) == exists /\ clock - lastTime < Second

\* A goroutine outside handleCallback. Inside, slot is the place of its
\* own timestamp among the accepted ones of its chat, 0 while it has none.
NoCallback ==
    [pc |-> "idle", chat |-> 0, parts |-> << >>, exists |-> FALSE, lastTime |-> 0,
     cooling |-> FALSE, decided |-> 0, slot |-> 0]

InitCool ==
    /\ cool = [clock |-> 0, cooldownMu |-> 0, callbackCooldown |-> << >>,
               g |-> [p \in Callers |-> NoCallback],
               arrived |-> 0,
               accepted |-> [c \in CoolChats |-> << >>],
               answered |-> << >>]
    /\ CheckerIdle
    /\ lastAll = << >>
    /\ dropped = {}
    /\ CheckIdle
    /\ CallIdle
    /\ StatIdle
    /\ JobIdle
    /\ TwinIdle
    /\ FrontIdle
    /\ HookIdle
    /\ MergeIdle
    /\ ShownIdle
    /\ BotIdle
    /\ HeapIdle

CoolFrame ==
    UNCHANGED << vars, checkVars, callVars, statVars, jobVars, twin, front, hook,
                 merge, shown, bot, heap >>

CoolAt(p, pc) == cool.g[p].pc = pc
CoolGoto(p, rec) == [cool.g EXCEPT ![p] = rec]

\* A callback of a chat reaches handleCallback on goroutine p.
CallbackArrives(p) ==
    /\ CoolAt(p, "idle")
    /\ cool.arrived < MaxCallbacks
    /\ \E chat \in CoolChats, parts \in CoolData :
          cool' = [cool EXCEPT
                     !.arrived = @ + 1,
                     !.g = CoolGoto(p, [NoCallback EXCEPT !.pc = "lock", !.chat = chat,
                                                          !.parts = parts])]
    /\ CoolFrame

\* checkCooldown: b.cooldownMu.Lock(), which waits while the mutex is held.
CooldownLock(p) ==
    /\ CoolAt(p, "lock")
    /\ cool.cooldownMu = 0
    /\ cool' = [cool EXCEPT !.cooldownMu = p,
                            !.g = CoolGoto(p, [cool.g[p] EXCEPT !.pc = "lookup"])]
    /\ CoolFrame

\* checkCooldown: lastTime, exists := b.callbackCooldown[chatID]
CooldownLookup(p) ==
    /\ CoolAt(p, "lookup")
    /\ LET chat == cool.g[p].chat
           exists == chat \in DOMAIN cool.callbackCooldown
       IN  cool' = [cool EXCEPT
                      !.g = CoolGoto(p, [cool.g[p] EXCEPT
                               !.pc = "compare",
                               !.exists = exists,
                               !.lastTime = IF exists THEN cool.callbackCooldown[chat]
                                            ELSE 0])]
    /\ CoolFrame

\* checkCooldown: the condition, with time.Since read at this moment.
CooldownCompare(p) ==
    /\ CoolAt(p, "compare")
    /\ LET cooling == inCooldown(cool.g[p].exists, cool.g[p].lastTime, cool.clock) IN
       cool' = [cool EXCEPT
                  !.g = CoolGoto(p, [cool.g[p] EXCEPT
                           !.pc = IF cooling THEN "unlock" ELSE "store",
                           !.cooling = cooling,
                           !.decided = cool.clock])]
    /\ CoolFrame

\* checkCooldown: b.callbackCooldown[chatID] = time.Now()
CooldownStore(p) ==
    /\ CoolAt(p, "store")
    /\ LET chat == cool.g[p].chat IN
       cool' = [cool EXCEPT
                  !.callbackCooldown = (chat :> cool.clock) @@ @,
                  !.accepted = [@ EXCEPT ![chat] = Append(@, cool.clock)],
                  !.g = CoolGoto(p, [cool.g[p] EXCEPT
                           !.pc = "unlock",
                           !.slot = Len(cool.accepted[chat]) + 1])]
    /\ CoolFrame

\* checkCooldown returns: the deferred b.cooldownMu.Unlock().
CooldownUnlock(p) ==
    /\ CoolAt(p, "unlock")
    /\ cool' = [cool EXCEPT !.cooldownMu = 0,
                            !.g = CoolGoto(p, [cool.g[p] EXCEPT !.pc = "route"])]
    /\ CoolFrame

\* handleCallback goes on with what checkCooldown returned: the answer
\* "Please wait" and return, or the handler of the button.
CallbackRoute(p) ==
    /\ CoolAt(p, "route")
    /\ cool' = [cool EXCEPT
                  !.answered = Append(@, [chat |-> cool.g[p].chat,
                                          cooling |-> cool.g[p].cooling,
                                          decided |-> cool.g[p].decided,
                                          did |-> handleCallback(cool.g[p].parts,
                                                                 cool.g[p].cooling)]),
                  !.g = CoolGoto(p, NoCallback)]
    /\ CoolFrame

\* Half a second passes.
CoolTick ==
    /\ cool.clock < MaxClock
    /\ cool' = [cool EXCEPT !.clock = @ + 1]
    /\ CoolFrame

NextCool ==
    \/ CoolTick
    \/ \E p \in Callers : CallbackArrives(p)
    \/ \E p \in Callers : CooldownLock(p)
    \/ \E p \in Callers : CooldownLookup(p)
    \/ \E p \in Callers : CooldownCompare(p)
    \/ \E p \in Callers : CooldownStore(p)
    \/ \E p \in Callers : CooldownUnlock(p)
    \/ \E p \in Callers : CallbackRoute(p)

\* Callbacks handled on two goroutines at once. Bot.Start handles them one
\* after the other; the mutex is what checkCooldown itself provides.
SpecCool == InitCool /\ [][NextCool]_allVars

\* ---------------------------------------------------------------- C39
\* The cooldown is the part of the program under way.
SpecCoolOn == "clock" \in DOMAIN cool

\* The timestamps of the accepted callbacks of every chat are at least one
\* second apart.
AcceptedApart ==
    \A chat \in DOMAIN cool.accepted :
       \A i, j \in DOMAIN cool.accepted[chat] :
          i < j => cool.accepted[chat][j] - cool.accepted[chat][i] >= Second

\* A callback is rejected only through an accepted callback of its own chat
\* less than a second earlier, whatever the other chats did, and is accepted
\* when its own chat has none.
OwnChatDecides ==
    \A p \in DOMAIN cool.g :
       cool.g[p].pc \in { "unlock", "route" } =>
          LET mine == cool.accepted[cool.g[p].chat]
              recent == \E i \in DOMAIN mine :
                           /\ i # cool.g[p].slot
                           /\ mine[i] <= cool.g[p].decided
                           /\ cool.g[p].decided - mine[i] < Second
          IN  cool.g[p].cooling <=> recent

\* Every rejected callback was answered without a handler, every accepted
\* one went on to the routing of its button.
RejectedRunNoHandler ==
    \A i \in DOMAIN cool.answered :
       LET a == cool.answered[i] IN
       /\ a.cooling => a.did = Routed("handleCallback", "answerCallback", << >>)
       /\ ~a.cooling => a.did.handler # "answerCallback"

\* A step changes the timestamp of a chat only for a callback of that chat
\* that the cooldown let through.
OnlyAcceptedStamp ==
    \A chat \in CoolChats :
       LET before == IF chat \in DOMAIN cool.callbackCooldown
                     THEN << cool.callbackCooldown[chat] >> ELSE << >>
           after == IF chat \in DOMAIN cool'.callbackCooldown
                    THEN << cool'.callbackCooldown[chat] >> ELSE << >>
       IN  before # after =>
              \E p \in DOMAIN cool.g :
                 /\ cool.g[p].pc = "store" /\ cool.g[p].chat = chat
                 /\ ~cool.g[p].cooling
                 /\ after = << cool.clock >>

\* C39: for every chat two accepted callbacks are at least one second apart,
\* also when callbacks of the chat are handled at the same time; a rejected
\* callback leaves the chat's timestamp alone and is answered without
\* running a handler; the cooldown of a chat does not affect another chat.
C39_CooldownPerChat ==
    /\ [](SpecCoolOn => (AcceptedApart /\ OwnChatDecides /\ RejectedRunNoHandler))
    /\ [][SpecCoolOn => OnlyAcceptedStamp]_allVars

\* A chat had a callback accepted, one rejected half a second later and one
\* accepted after the second had passed, the last two on the other
\* goroutine.
C39_Witness ==
    /\ SpecCoolOn
    /\ Len(cool.accepted[101]) = 2
    /\ Len(cool.answered) = 3
    /\ \E i \in DOMAIN cool.answered :
          cool.answered[i].chat = 101 /\ cool.answered[i].cooling

\* Two chats press within the same half second and both are accepted.
C39_OtherChatNotHeld ==
    /\ SpecCoolOn
    /\ cool.accepted[101] # << >> /\ cool.accepted[102] # << >>
    /\ cool.accepted[101][1] = cool.accepted[102][1]

\* Two callbacks of one chat are inside handleCallback at once: one holds
\* the mutex, the other waits for it.
C39_WaitingForMutex ==
    /\ SpecCoolOn
    /\ cool.g[1].chat = cool.g[2].chat
    /\ cool.g[1].pc = "store" /\ cool.g[2].pc = "lock"

====
